---------------------------- MODULE Spec2Model ----------------------------
(***************************************************************************)
(* Smart Spacing text processor (src/processor.ts).                        *)
(*                                                                         *)
(* A string is a sequence of one-character strings.  Cursors and lengths   *)
(* are 0-based as in the source; At(s, i) is s[i] of the source and is     *)
(* Undefined outside the string.                                           *)
(***************************************************************************)
EXTENDS Integers, Sequences, FiniteSets, TLC

\* ------------------------------------------------------------------------
\* Bounds of the model
\* ------------------------------------------------------------------------
\* the number of tokens of an input line
MaxTokens == 5
\* the number of lines of a text with block delimiters
MaxBlockLines == 4
\* the number of calls a caller makes in a row
MaxCalls == 2
\* the number of tokens of an input line with inline code
MaxCodeTokens == 4
\* the number of tokens of an input line with inline math
MaxMathTokens == 5
\* the number of lines of a text of a caller that makes several calls
MaxCallLines == 2

\* ------------------------------------------------------------------------
\* Characters
\* ------------------------------------------------------------------------
STAR == "*"
SP == " "
TAB == "\t"
NL == "\n"
\* the backtick
BT == "bt"
TILDE == "~"
DOLLAR == "$"
BSLASH == "\\"
AMP == "&"
\* the apostrophe
QUOTE == "apos"
DOT == "."
\* the control character \x00 that delimits a placeholder
NUL == "\\x00"
\* one character of U+4E00..U+9FA5
ZH == "zh"
\* the value of s[i] outside the string
Undefined == "undefined"

Digits == <<"0", "1", "2", "3", "4", "5", "6", "7", "8", "9">>

Letters ==
  {"a", "b", "A", "B", "C", "D", "E", "I", "L", "O", "S", "T", "X",
   "W", "o", "r", "d", "l"}

DigitSet == {Digits[k] : k \in 1..10}

\* a no-break space: whitespace (\s) that is neither a space nor a tab
NBSP == "nbsp"
\* the fullwidth comma U+FF0C: CJK punctuation outside U+4E00..U+9FA5
FWCOMMA == "fwcomma"

\* /\s/ restricted to the characters of the model
WhitespaceChars == {SP, TAB, NL, NBSP}

At(s, i) == IF i >= 0 /\ i < Len(s) THEN s[i + 1] ELSE Undefined

\* s.substring(from, to), 0-based, to exclusive
Sub(s, from, to) == SubSeq(s, from + 1, to)

Last(s) == At(s, Len(s) - 1)

\* the least index >= from where pat occurs in s, or -1
IndexOf(s, pat, from) ==
  LET hits == {p \in from..(Len(s) - Len(pat)) : Sub(s, p, p + Len(pat)) = pat}
  IN IF hits = {} THEN -1 ELSE CHOOSE p \in hits : \A q \in hits : p <= q

\* String(n) for n >= 0
RECURSIVE NumberToString(_)
NumberToString(n) ==
  IF n < 10 THEN <<Digits[n + 1]>>
  ELSE NumberToString(n \div 10) \o <<Digits[(n % 10) + 1]>>

\* ------------------------------------------------------------------------
\* String.prototype.replace(pattern: string, replacement: string)
\* ------------------------------------------------------------------------

\* The replacement text: "$$" is "$", "$&" the matched text, "$" and a
\* backtick the text before the match, "$" and an apostrophe the text after
\* it; any other "$" is literal.
RECURSIVE GetSubstitution(_, _, _, _, _)
GetSubstitution(repl, k, matched, before, after) ==
  IF k >= Len(repl) THEN <<>>
  ELSE IF At(repl, k) = DOLLAR /\ At(repl, k + 1) = DOLLAR
    THEN <<DOLLAR>> \o GetSubstitution(repl, k + 2, matched, before, after)
  ELSE IF At(repl, k) = DOLLAR /\ At(repl, k + 1) = AMP
    THEN matched \o GetSubstitution(repl, k + 2, matched, before, after)
  ELSE IF At(repl, k) = DOLLAR /\ At(repl, k + 1) = BT
    THEN before \o GetSubstitution(repl, k + 2, matched, before, after)
  ELSE IF At(repl, k) = DOLLAR /\ At(repl, k + 1) = QUOTE
    THEN after \o GetSubstitution(repl, k + 2, matched, before, after)
  ELSE <<At(repl, k)>> \o GetSubstitution(repl, k + 1, matched, before, after)

\* s.replace(pat, repl): the first occurrence of pat only
StringReplace(s, pat, repl) ==
  LET pos == IndexOf(s, pat, 0)
  IN IF pos < 0 THEN s
     ELSE LET before == Sub(s, 0, pos)
              after == Sub(s, pos + Len(pat), Len(s))
          IN before \o GetSubstitution(repl, 0, pat, before, after) \o after

\* ------------------------------------------------------------------------
\* protectLine
\* ------------------------------------------------------------------------

\* a placeholder without the two delimiting characters
PlaceholderBare(kind, nextIndex) == kind \o NumberToString(nextIndex)

\* the template \x00 kind nextIndex \x00
Placeholder(kind, nextIndex) ==
  <<NUL>> \o kind \o NumberToString(nextIndex) \o <<NUL>>

LIST == <<"L", "I", "S", "T">>
CODE == <<"C", "O", "D", "E">>
LATEX == <<"L", "A", "T", "E", "X">>

\* the number of leading whitespace characters of s from index k on
RECURSIVE LeadingWhitespace(_, _)
LeadingWhitespace(s, k) ==
  IF k < Len(s) /\ At(s, k) \in WhitespaceChars
  THEN LeadingWhitespace(s, k + 1) ELSE k

\* the list pattern without the indentation: /^([*])(?=\s)/
ListMatchNoIndent(line) ==
  IF At(line, 0) = STAR /\ At(line, 1) \in WhitespaceChars THEN 1 ELSE 0

\* /^(?:\s*)([*])(?=\s)/.exec(line): the length of match[0], or 0
ListMatch(line) ==
  LET k == LeadingWhitespace(line, 0)
  IN IF At(line, k) = STAR /\ At(line, k + 1) \in WhitespaceChars
     THEN k + 1 ELSE 0

\* an inline code pattern that lets a span without a closing backtick run
\* to the end of the line
CodeMatchEndOpen(s, p) ==
  IF At(s, p) = BT /\ p + 1 < Len(s) /\ At(s, p + 1) # BT
  THEN LET q == IndexOf(s, <<BT>>, p + 2)
       IN IF q < 0 THEN Len(s) ELSE q + 1
  ELSE -1

\* the end (exclusive) of a match of the inline code pattern (a backtick, one or more
\* characters other than a backtick, a backtick) starting at p, or -1
CodeMatchEnd(s, p) ==
  IF At(s, p) = BT /\ p + 1 < Len(s) /\ At(s, p + 1) # BT
  THEN LET q == IndexOf(s, <<BT>>, p + 2)
       IN IF q < 0 THEN -1 ELSE q + 1
  ELSE -1

\* the end (exclusive) of a match of /\$(?:\\.|[^$\\])*\$/ whose body starts
\* at q, or -1
RECURSIVE LatexBodyEnd(_, _)
LatexBodyEnd(s, q) ==
  IF q >= Len(s) THEN -1
  ELSE IF At(s, q) = DOLLAR THEN q + 1
  ELSE IF At(s, q) = BSLASH
    THEN IF q + 1 < Len(s) /\ At(s, q + 1) # NL
         THEN LatexBodyEnd(s, q + 2) ELSE -1
  ELSE LatexBodyEnd(s, q + 1)

\* the end (exclusive) of a match of /(?<!\\)\$(?:\\.|[^$\\])*\$/ at p, or -1
LatexMatchEnd(s, p) ==
  IF At(s, p) = DOLLAR /\ At(s, p - 1) # BSLASH
  THEN LatexBodyEnd(s, p + 1) ELSE -1

\* the end (exclusive) of a match at p of the pattern of the given kind
MatchEnd(kind, s, p) ==
  IF kind = CODE THEN CodeMatchEnd(s, p) ELSE LatexMatchEnd(s, p)

\* regex.exec(s) with regex.lastIndex = from: the leftmost match at or after
\* from, as [index, end], or [index |-> -1, end |-> -1]
RECURSIVE ExecFrom(_, _, _)
ExecFrom(kind, s, from) ==
  IF from >= Len(s) THEN [index |-> -1, end |-> -1]
  ELSE LET e == MatchEnd(kind, s, from)
       IN IF e >= 0 THEN [index |-> from, end |-> e]
          ELSE ExecFrom(kind, s, from + 1)

\* lines 124-135: the exec loop.  The placeholder is built from nextIndex,
\* which the loop never increments; lastIndex is kept from the string as it
\* was before the replacement.
RECURSIVE CodeExecLoop(_, _, _, _)
CodeExecLoop(protectedLine, lastIndex, sections, nextIndex) ==
  LET m == ExecFrom(CODE, protectedLine, lastIndex)
  IN IF m.index < 0 THEN [protectedLine |-> protectedLine, sections |-> sections]
     ELSE LET match0 == Sub(protectedLine, m.index, m.end)
              placeholder == Placeholder(CODE, nextIndex)
          IN CodeExecLoop(StringReplace(protectedLine, match0, placeholder),
                          m.end,
                          Append(sections, [placeholder |-> placeholder,
                                            original |-> match0]),
                          nextIndex)

\* s.replace(regex /g, callback): every match, left to right, replaced by a
\* placeholder of the given kind built from nextIndex++
RECURSIVE ReplaceAll(_, _, _, _, _, _)
ReplaceAll(kind, s, from, out, sections, nextIndex) ==
  LET m == ExecFrom(kind, s, from)
  IN IF m.index < 0
     THEN [protectedLine |-> out \o Sub(s, from, Len(s)),
           sections |-> sections, nextIndex |-> nextIndex]
     ELSE LET placeholder == Placeholder(kind, nextIndex)
          IN ReplaceAll(kind, s, m.end,
                        out \o Sub(s, from, m.index) \o placeholder,
                        Append(sections, [placeholder |-> placeholder,
                                          original |-> Sub(s, m.index, m.end)]),
                        nextIndex + 1)

\* step 1 of protectLine: the list marker
ProtectList(line) ==
  LET n == ListMatch(line)
      placeholder == Placeholder(LIST, 0)
  IN IF n > 0
     THEN [protectedLine |-> StringReplace(line, Sub(line, 0, n), placeholder),
           sections |-> <<[placeholder |-> placeholder, original |-> Sub(line, 0, n)]>>,
           nextIndex |-> 1]
     ELSE [protectedLine |-> line, sections |-> <<>>, nextIndex |-> 0]

\* step 2 of protectLine: inline code, the exec loop and then the callback
ProtectCode(p, settings) ==
  IF settings.skipInlineCode
  THEN LET l == CodeExecLoop(p.protectedLine, 0, p.sections, p.nextIndex)
       IN ReplaceAll(CODE, l.protectedLine, 0, <<>>,
                     l.sections, p.nextIndex)
  ELSE p

\* a protectLine without its step 3
ProtectLatexSkipped(p) == p

\* step 3 of protectLine: inline LaTeX
ProtectLatex(p) ==
  ReplaceAll(LATEX, p.protectedLine, 0, <<>>, p.sections,
             p.nextIndex)

\* the result also carries nextIndex, which the caller does not read
protectLine(line, settings) ==
  ProtectLatex(ProtectCode(ProtectList(line), settings))

RECURSIVE RestoreFrom(_, _, _)
RestoreFrom(result, sections, i) ==
  IF i < 0 THEN result
  ELSE RestoreFrom(StringReplace(result, sections[i + 1].placeholder,
                                 sections[i + 1].original),
                   sections, i - 1)

restoreProtectedSections(line, sections) ==
  RestoreFrom(line, sections, Len(sections) - 1)

\* ------------------------------------------------------------------------
\* Helpers
\* ------------------------------------------------------------------------

\* the CJK test widened to letters
isChineseOrLetter(char) == char = ZH \/ char \in Letters

\* /[\u4e00-\u9fa5]/.test(char); test(undefined) tests the text "undefined"
isChinese(char) == char = ZH

\* /[a-zA-Z0-9]/.test(char); test(undefined) tests the text "undefined"
isAlphaNumeric(char) == char \in Letters \cup DigitSet \cup {Undefined}

\* shouldAddSpaceBefore with one setting for every letter, digit and CJK
\* character
shouldAddSpaceBeforeOneSetting(char, settings) ==
  IF char = Undefined \/ char = SP \/ char = TAB THEN FALSE
  ELSE IF isChinese(char) \/ isAlphaNumeric(char)
    THEN settings.spaceBetweenChineseAndBold
  ELSE FALSE

shouldAddSpaceBefore(char, settings) ==
  IF char = Undefined \/ char = SP \/ char = TAB THEN FALSE
  ELSE IF isChinese(char) THEN settings.spaceBetweenChineseAndBold
  ELSE IF isAlphaNumeric(char) THEN settings.spaceBetweenEnglishAndBold
  ELSE FALSE

\* shouldAddSpaceAfter without the test for an absent character
shouldAddSpaceAfterNoGuard(char, settings) ==
  IF char = SP \/ char = TAB \/ char = NL THEN FALSE
  ELSE IF isChinese(char) THEN settings.spaceBetweenChineseAndBold
  ELSE IF isAlphaNumeric(char) THEN settings.spaceBetweenEnglishAndBold
  ELSE FALSE

shouldAddSpaceAfter(char, settings) ==
  IF char = Undefined \/ char = SP \/ char = TAB \/ char = NL THEN FALSE
  ELSE IF isChinese(char) THEN settings.spaceBetweenChineseAndBold
  ELSE IF isAlphaNumeric(char) THEN settings.spaceBetweenEnglishAndBold
  ELSE FALSE

\* count stars from index on, and no star right after them
isMarker(text, index, count) ==
  /\ index + count <= Len(text)
  /\ \A j \in 0..(count - 1) : At(text, index + j) = STAR
  /\ ~(index + count < Len(text) /\ At(text, index + count) = STAR)

Stars(count) == [j \in 1..count |-> STAR]

\* ------------------------------------------------------------------------
\* removeInternalSpaces
\* ------------------------------------------------------------------------

\* a loop that drops whatever result ends with, down to startPos
TrimTrailingAnything(result, startPos) ==
  IF Len(result) > startPos THEN Sub(result, 0, startPos) ELSE result

\* the closing branch's loop: drop trailing whitespace of result, down to
\* startPos at most
RECURSIVE TrimTrailing(_, _)
TrimTrailing(result, startPos) ==
  IF Len(result) > startPos /\ Last(result) \in WhitespaceChars
  THEN TrimTrailing(Sub(result, 0, Len(result) - 1), startPos)
  ELSE result

\* a skip that takes one character more than the blanks
RECURSIVE SkipBlanksOneMore(_, _)
SkipBlanksOneMore(line, i) ==
  IF i < Len(line) /\ At(line, i) \in {SP, TAB}
  THEN SkipBlanksOneMore(line, i + 1) ELSE i + 1

\* the opening branch's loop: skip spaces and tabs of the input
RECURSIVE SkipBlanks(_, _)
SkipBlanks(line, i) ==
  IF i < Len(line) /\ At(line, i) \in {SP, TAB}
  THEN SkipBlanks(line, i + 1) ELSE i

\* a scan state of removeInternalSpaces: the cursor i, the output buffer
\* result and the markerStack of [type, startPos] frames
IsClosing(markerStack, type) ==
  Len(markerStack) > 0 /\ markerStack[Len(markerStack)].type = type

handleMarker(line, st, count) ==
  LET type == Stars(count)
  IN IF IsClosing(st.markerStack, type)
     THEN [i |-> st.i + count,
           result |-> TrimTrailing(st.result,
                        st.markerStack[Len(st.markerStack)].startPos) \o type,
           markerStack |-> Sub(st.markerStack, 0, Len(st.markerStack) - 1)]
     ELSE [i |-> SkipBlanks(line, st.i + count),
           result |-> st.result \o type,
           markerStack |-> Append(st.markerStack,
                             [type |-> type,
                              startPos |-> Len(st.result) + count])]

\* one iteration of the scan loop
RemoveStep(line, st) ==
  IF isMarker(line, st.i, 3) THEN handleMarker(line, st, 3)
  ELSE IF isMarker(line, st.i, 2) THEN handleMarker(line, st, 2)
  ELSE IF isMarker(line, st.i, 1) THEN handleMarker(line, st, 1)
  ELSE [i |-> st.i + 1, result |-> Append(st.result, At(line, st.i)),
        markerStack |-> st.markerStack]

RECURSIVE RemoveScan(_, _)
RemoveScan(line, st) ==
  IF st.i < Len(line) THEN RemoveScan(line, RemoveStep(line, st)) ELSE st

removeInternalSpaces(line) ==
  RemoveScan(line, [i |-> 0, result |-> <<>>, markerStack |-> <<>>]).result

\* ------------------------------------------------------------------------
\* fixBoldSpacing
\* ------------------------------------------------------------------------

\* the bold token at i when only two stars are looked for
BoldTokenAtWidthTwo(line, i) ==
  IF isMarker(line, i, 2) THEN 2 ELSE 0

\* the bold token at i when a single star is a token too
BoldTokenAtAnyWidth(line, i) ==
  IF isMarker(line, i, 3) THEN 3
  ELSE IF isMarker(line, i, 2) THEN 2
  ELSE IF isMarker(line, i, 1) THEN 1
  ELSE 0

\* the width of the bold token at i: 3, 2, or 0 for none
BoldTokenAt(line, i) ==
  IF isMarker(line, i, 3) THEN 3
  ELSE IF isMarker(line, i, 2) THEN 2
  ELSE 0

\* a scan state of fixBoldSpacing: i, result, isBold
handleBoldToken(line, st, count, settings) ==
  LET token == Stars(count)
  IN IF ~st.isBold
     THEN [i |-> st.i + count,
           result |-> (IF shouldAddSpaceBefore(Last(st.result), settings)
                       THEN Append(st.result, SP) ELSE st.result) \o token,
           isBold |-> TRUE]
     ELSE [i |-> st.i + count,
           result |-> IF shouldAddSpaceAfter(At(line, st.i + count), settings)
                      THEN Append(st.result \o token, SP)
                      ELSE st.result \o token,
           isBold |-> FALSE]

BoldStep(line, st, settings) ==
  LET count == BoldTokenAt(line, st.i)
  IN IF count > 0 THEN handleBoldToken(line, st, count, settings)
     ELSE [i |-> st.i + 1, result |-> Append(st.result, At(line, st.i)),
           isBold |-> st.isBold]

RECURSIVE BoldScan(_, _, _)
BoldScan(line, st, settings) ==
  IF st.i < Len(line) THEN BoldScan(line, BoldStep(line, st, settings), settings)
  ELSE st

\* a variant that gives the line back when it ends inside a bold span
fixBoldSpacingUndoOpen(line, settings) ==
  LET st == BoldScan(line, [i |-> 0, result |-> <<>>, isBold |-> FALSE], settings)
  IN IF st.isBold THEN line ELSE st.result

fixBoldSpacing(line, settings) ==
  BoldScan(line, [i |-> 0, result |-> <<>>, isBold |-> FALSE], settings).result

\* ------------------------------------------------------------------------
\* fixItalicSpacing
\* ------------------------------------------------------------------------

\* an italic scan that passes no bold marker through
PassThroughAtNone(line, i) == 0

\* the width of the bold marker passed through at i: 3, 2, or 0 for none
PassThroughAt(line, i) ==
  IF isMarker(line, i, 3) THEN 3
  ELSE IF isMarker(line, i, 2) THEN 2
  ELSE 0

\* the italic marker branch; a scan state is i, result, isItalic
handleItalicMarker(line, st, settings) ==
  IF ~st.isItalic
  THEN LET charBefore == Last(st.result)
       IN [i |-> st.i + 1,
           result |-> (IF settings.spaceBetweenChineseAndItalic
                          /\ isChinese(charBefore) /\ charBefore # SP
                       THEN Append(st.result, SP) ELSE st.result) \o <<STAR>>,
           isItalic |-> TRUE]
  ELSE LET charAfter == At(line, st.i + 1)
       IN [i |-> st.i + 1,
           result |-> IF settings.spaceBetweenChineseAndItalic
                         /\ isChinese(charAfter)
                      THEN st.result \o <<STAR, SP>>
                      ELSE Append(st.result, STAR),
           isItalic |-> FALSE]

ItalicStep(line, st, settings) ==
  LET count == PassThroughAt(line, st.i)
  IN IF count > 0
     THEN [i |-> st.i + count, result |-> st.result \o Stars(count),
           isItalic |-> st.isItalic]
     ELSE IF isMarker(line, st.i, 1) THEN handleItalicMarker(line, st, settings)
     ELSE [i |-> st.i + 1, result |-> Append(st.result, At(line, st.i)),
           isItalic |-> st.isItalic]

RECURSIVE ItalicScan(_, _, _)
ItalicScan(line, st, settings) ==
  IF st.i < Len(line)
  THEN ItalicScan(line, ItalicStep(line, st, settings), settings)
  ELSE st

fixItalicSpacing(line, settings) ==
  ItalicScan(line, [i |-> 0, result |-> <<>>, isItalic |-> FALSE], settings).result

\* ------------------------------------------------------------------------
\* processLine: the value of currentLine after each step
\* ------------------------------------------------------------------------
\* step 1 (line 73); the later fields are filled in by the later steps
StartOf(line, p) ==
  [line |-> line, protectedLine |-> p.protectedLine, sections |-> p.sections,
   removed |-> <<>>, bold |-> <<>>, italic |-> <<>>, restored |-> <<>>]

\* a step 2 that does not look at its option
RemoveStageAlways(r, settings) ==
  [r EXCEPT !.removed = removeInternalSpaces(r.protectedLine)]

\* step 2 (lines 77-79)
RemoveStage(r, settings) ==
  [r EXCEPT !.removed = IF settings.removeInternalBoldSpaces
                        THEN removeInternalSpaces(r.protectedLine)
                        ELSE r.protectedLine]

\* step 3 (lines 82-84)
BoldStage(r, settings) ==
  [r EXCEPT !.bold = IF settings.spaceBetweenChineseAndBold
                        \/ settings.spaceBetweenEnglishAndBold
                     THEN fixBoldSpacing(r.removed, settings)
                     ELSE r.removed]

\* step 4 (lines 87-89)
ItalicStage(r, settings) ==
  [r EXCEPT !.italic = IF settings.spaceBetweenChineseAndItalic
                       THEN fixItalicSpacing(r.bold, settings)
                       ELSE r.bold]

\* step 5 (line 92)
RestoreStage(r) ==
  [r EXCEPT !.restored = restoreProtectedSections(r.italic, r.sections)]

\* a processLine that fixes the bold spacing before it removes the
\* internal spaces
processLineBoldFirst(line, settings) ==
  LET p == StartOf(line, protectLine(line, settings))
      b == IF settings.spaceBetweenChineseAndBold
              \/ settings.spaceBetweenEnglishAndBold
           THEN fixBoldSpacing(p.protectedLine, settings)
           ELSE p.protectedLine
      t == IF settings.removeInternalBoldSpaces
           THEN removeInternalSpaces(b) ELSE b
  IN RestoreStage(ItalicStage([p EXCEPT !.removed = b, !.bold = t], settings))

processLine(line, settings) ==
  RestoreStage(
    ItalicStage(
      BoldStage(
        RemoveStage(StartOf(line, protectLine(line, settings)), settings),
        settings),
      settings))

\* ------------------------------------------------------------------------
\* processText
\* ------------------------------------------------------------------------

\* text.split('\n')
RECURSIVE SplitFrom(_, _, _)
SplitFrom(text, k, cur) ==
  IF k >= Len(text) THEN <<cur>>
  ELSE IF At(text, k) = NL THEN <<cur>> \o SplitFrom(text, k + 1, <<>>)
  ELSE SplitFrom(text, k + 1, Append(cur, At(text, k)))

Split(text) == SplitFrom(text, 0, <<>>)

\* resultLines.join('\n')
RECURSIVE Join(_)
Join(ls) ==
  IF Len(ls) = 0 THEN <<>>
  ELSE IF Len(ls) = 1 THEN ls[1]
  ELSE ls[1] \o <<NL>> \o Join(Tail(ls))

RECURSIVE TrimEnd(_)
TrimEnd(s) ==
  IF Len(s) > 0 /\ Last(s) \in WhitespaceChars
  THEN TrimEnd(Sub(s, 0, Len(s) - 1)) ELSE s

\* line.trim()
Trim(line) == TrimEnd(Sub(line, LeadingWhitespace(line, 0), Len(line)))

StartsWith(s, pat) == Len(s) >= Len(pat) /\ Sub(s, 0, Len(pat)) = pat

\* /^```|^~~~/.test(trim)
IsFence(trim) ==
  StartsWith(trim, <<BT, BT, BT>>) \/ StartsWith(trim, <<TILDE, TILDE, TILDE>>)

\* /^\s*\$\$/.test(trim)
IsLatexDelimiter(trim) ==
  LET k == LeadingWhitespace(trim, 0)
  IN At(trim, k) = DOLLAR /\ At(trim, k + 1) = DOLLAR

\* /^\s*\$\$.*\$\$\s*$/.test(trim)
IsSingleLineLatex(trim) ==
  \E k \in 0..LeadingWhitespace(trim, 0) :
    /\ At(trim, k) = DOLLAR /\ At(trim, k + 1) = DOLLAR
    /\ \E e \in (k + 2)..(Len(trim) - 2) :
         /\ At(trim, e) = DOLLAR /\ At(trim, e + 1) = DOLLAR
         /\ \A j \in (k + 2)..(e - 1) : At(trim, j) # NL
         /\ \A j \in (e + 2)..(Len(trim) - 1) : At(trim, j) \in WhitespaceChars

\* every line that starts with two dollars toggles
TogglesLatexAlways(trim) == TRUE

\* the condition of line 48
TogglesLatex(trim) ==
  ~IsSingleLineLatex(trim) \/ trim = <<DOLLAR, DOLLAR>>

SettingsType ==
  [removeInternalBoldSpaces : BOOLEAN,
   spaceBetweenChineseAndBold : BOOLEAN,
   spaceBetweenEnglishAndBold : BOOLEAN,
   spaceBetweenChineseAndItalic : BOOLEAN,
   skipCodeBlocks : BOOLEAN,
   skipInlineCode : BOOLEAN]

\* ------------------------------------------------------------------------
\* The live-preview layer (livePreviewExtension.ts)
\* ------------------------------------------------------------------------

\* i > 0 ? line[i - 1] : ''  and  i + w < len ? line[i + w] : ''
Empty == ""
CharOrEmpty(line, i) ==
  IF i >= 0 /\ i < Len(line) THEN line[i + 1] ELSE Empty

\* lines 179-182
previewIsChinese(char) == char # Empty /\ char = ZH

\* lines 184-187
previewIsAlphaNumeric(char) ==
  char # Empty /\ char \in Letters \cup DigitSet

\* lines 189-194
previewShouldAddSpaceBefore(char, settings) ==
  IF char = Empty \/ char = SP \/ char = TAB THEN FALSE
  ELSE IF previewIsChinese(char) THEN settings.spaceBetweenChineseAndBold
  ELSE IF previewIsAlphaNumeric(char) THEN settings.spaceBetweenEnglishAndBold
  ELSE FALSE

\* lines 196-201
previewShouldAddSpaceAfter(char, settings) ==
  IF char = Empty \/ char = SP \/ char = TAB \/ char = NL THEN FALSE
  ELSE IF previewIsChinese(char) THEN settings.spaceBetweenChineseAndBold
  ELSE IF previewIsAlphaNumeric(char) THEN settings.spaceBetweenEnglishAndBold
  ELSE FALSE

\* decorations.push({from, to, decoration: Decoration.widget({widget: new
\* SpaceWidget(), side})})
SpaceWidgetAt(position, side) ==
  [from |-> position, to |-> position, side |-> side]

PushIf(condition, decoration) == IF condition THEN <<decoration>> ELSE <<>>

\* the while loop of lines 59-153, from index i with the two flags
RECURSIVE DecorationsFrom(_, _, _, _, _, _)
DecorationsFrom(line, lineStart, settings, i, isBold, isItalic) ==
  IF i >= Len(line) THEN <<>>
  ELSE IF i + 1 < Len(line) /\ At(line, i) = STAR /\ At(line, i + 1) = STAR
    THEN IF i + 2 < Len(line) /\ At(line, i + 2) = STAR
         THEN \* lines 63-83
              PushIf(~isBold /\ previewShouldAddSpaceBefore(
                                  CharOrEmpty(line, i - 1), settings),
                     SpaceWidgetAt(lineStart + i, -1))
              \o DecorationsFrom(line, lineStart, settings, i + 3, ~isBold,
                                 isItalic)
         ELSE \* lines 86-115
              (IF ~isBold
               THEN PushIf(previewShouldAddSpaceBefore(
                             CharOrEmpty(line, i - 1), settings),
                           SpaceWidgetAt(lineStart + i, -1))
               ELSE PushIf(previewShouldAddSpaceAfter(
                             CharOrEmpty(line, i + 2), settings),
                           SpaceWidgetAt(lineStart + i + 2, 1)))
              \o DecorationsFrom(line, lineStart, settings, i + 2, ~isBold,
                                 isItalic)
  ELSE IF At(line, i) = STAR
    THEN \* lines 119-150
         (IF ~isItalic
          THEN PushIf(settings.spaceBetweenChineseAndItalic
                        /\ previewIsChinese(CharOrEmpty(line, i - 1))
                        /\ CharOrEmpty(line, i - 1) # SP,
                      SpaceWidgetAt(lineStart + i, -1))
          ELSE PushIf(settings.spaceBetweenChineseAndItalic
                        /\ previewIsChinese(CharOrEmpty(line, i + 1)),
                      SpaceWidgetAt(lineStart + i + 1, 1)))
         \o DecorationsFrom(line, lineStart, settings, i + 1, isBold,
                            ~isItalic)
  ELSE DecorationsFrom(line, lineStart, settings, i + 1, isBold, isItalic)

\* lines 50-156
getLineDecorations(line, lineStart, settings) ==
  DecorationsFrom(line, lineStart, settings, 0, FALSE, FALSE)

\* the loop of lines 19-36 from line lineIndex (1-based here)
RECURSIVE DecorateLines(_, _, _, _)
DecorateLines(ls, lineIndex, lineStart, settings) ==
  IF lineIndex > Len(ls) THEN <<>>
  ELSE LET line == ls[lineIndex]
       IN (IF Len(Trim(line)) = 0 THEN <<>>
           ELSE getLineDecorations(line, lineStart, settings))
          \o DecorateLines(ls, lineIndex + 1, lineStart + Len(line) + 1,
                           settings)

\* lines 13-39: the ranges added to the builder, in the order added
buildDecorations(doc, settings) == DecorateLines(Split(doc), 1, 0, settings)

\* ------------------------------------------------------------------------
\* The state of one caller of processText
\* ------------------------------------------------------------------------
VARIABLES
  text,          \* the argument of the current call
  settings,      \* the settings record of the caller
  pc,            \* "idle", "loop" (inside the for loop) or "returned"
  lines,         \* text.split('\n')
  n,             \* the number of lines the loop has handled
  inCodeBlock,
  inLatexBlock,
  resultLines,
  steps,         \* per line handled: how it was handled and, for a processed
                 \* line, the values currentLine took in processLine; for a
                 \* caller of a helper alone, what it asked and got back
  ret,           \* the value returned by the current call
  history,       \* the completed calls, oldest first, as [text, ret]
  host,          \* the plugin object and the editor it acts on (main.ts)
  scan           \* one call of a scan function on its own: which one, the
                 \* values of its locals, and what each iteration did

vars ==
  <<text, settings, pc, lines, n, inCodeBlock, inLatexBlock, resultLines,
    steps, ret, history, host, scan>>

\* the plugin object before onload has run: no settings, no commands
NotLoaded ==
  [phase |-> "constructed", data |-> [stored |-> FALSE, record |-> <<>>],
   settings |-> <<>>, doc |-> <<>>, cursor |-> 0, commands |-> 0,
   last |-> <<>>, built |-> FALSE, decorations |-> <<>>]

\* no scan function has been called on its own
NoScan == [kind |-> "none", st |-> <<>>, open |-> <<>>, log |-> <<>>]

InitWith(texts, settingsSet) ==
  /\ text \in texts
  /\ settings \in settingsSet
  /\ pc = "idle"
  /\ lines = <<>>
  /\ n = 0
  /\ inCodeBlock = FALSE
  /\ inLatexBlock = FALSE
  /\ resultLines = <<>>
  /\ steps = <<>>
  /\ ret = <<>>
  /\ history = <<>>
  /\ host = NotLoaded
  /\ scan = NoScan

\* a call that starts with the block flags as the last call left them
CallKeepingFlags ==
  /\ pc = "idle"
  /\ pc' = "loop"
  /\ lines' = Split(text)
  /\ n' = 0
  /\ resultLines' = <<>>
  /\ steps' = <<>>
  /\ UNCHANGED <<host, scan, text, settings, inCodeBlock, inLatexBlock, ret, history>>

\* lines 29-32: the call starts
Call ==
  /\ pc = "idle"
  /\ pc' = "loop"
  /\ lines' = Split(text)
  /\ n' = 0
  /\ inCodeBlock' = FALSE
  /\ inLatexBlock' = FALSE
  /\ resultLines' = <<>>
  /\ steps' = <<>>
  /\ UNCHANGED <<host, scan, text, settings, ret, history>>

InLoop == pc = "loop" /\ n < Len(lines)

\* the loop variable "line"
loopLine == lines[n + 1]

FenceCondition == settings.skipCodeBlocks /\ IsFence(Trim(loopLine))

Passed(kind) ==
  [kind |-> kind, line |-> loopLine, protectedLine |-> loopLine, sections |-> <<>>,
   removed |-> loopLine, bold |-> loopLine, italic |-> loopLine,
   restored |-> loopLine]

\* lines 38-42
FenceLine ==
  /\ InLoop
  /\ FenceCondition
  /\ inCodeBlock' = ~inCodeBlock
  /\ resultLines' = Append(resultLines, loopLine)
  /\ steps' = Append(steps, Passed("fence"))
  /\ n' = n + 1
  /\ UNCHANGED <<host, scan, text, settings, pc, lines, inLatexBlock, ret, history>>

\* lines 45-53
LatexLine ==
  /\ InLoop
  /\ ~FenceCondition
  /\ IsLatexDelimiter(Trim(loopLine))
  /\ inLatexBlock' = IF TogglesLatex(Trim(loopLine)) THEN ~inLatexBlock
                     ELSE inLatexBlock
  /\ resultLines' = Append(resultLines, loopLine)
  /\ steps' = Append(steps, Passed("latex"))
  /\ n' = n + 1
  /\ UNCHANGED <<host, scan, text, settings, pc, lines, inCodeBlock, ret, history>>

\* lines 56-59
BlockLine ==
  /\ InLoop
  /\ ~FenceCondition
  /\ ~IsLatexDelimiter(Trim(loopLine))
  /\ inCodeBlock \/ inLatexBlock
  /\ resultLines' = Append(resultLines, loopLine)
  /\ steps' = Append(steps, Passed("block"))
  /\ n' = n + 1
  /\ UNCHANGED <<host, scan, text, settings, pc, lines, inCodeBlock, inLatexBlock, ret,
                 history>>

\* a call of processLine that sees the line before, too: the line is
\* processed behind the line before it, so a marker left open there is
\* still open, and what follows the result of the line before is pushed
ProcessLineCarrying ==
  /\ InLoop
  /\ ~FenceCondition
  /\ ~IsLatexDelimiter(Trim(loopLine))
  /\ ~(inCodeBlock \/ inLatexBlock)
  /\ LET before == IF n > 0 THEN lines[n] ELSE <<>>
         r == processLine(before \o loopLine, settings)
     IN /\ resultLines' =
             Append(resultLines,
                    Sub(r.restored, Len(processLine(before, settings).restored),
                        Len(r.restored)))
        /\ steps' = Append(steps, [kind |-> "processed"] @@ r)
  /\ n' = n + 1
  /\ UNCHANGED <<host, scan, text, settings, pc, lines, inCodeBlock, inLatexBlock, ret,
                 history>>

\* line 62
ProcessLine ==
  /\ InLoop
  /\ ~FenceCondition
  /\ ~IsLatexDelimiter(Trim(loopLine))
  /\ ~(inCodeBlock \/ inLatexBlock)
  /\ LET r == processLine(loopLine, settings)
     IN /\ resultLines' = Append(resultLines, r.restored)
        /\ steps' = Append(steps, [kind |-> "processed"] @@ r)
  /\ n' = n + 1
  /\ UNCHANGED <<host, scan, text, settings, pc, lines, inCodeBlock, inLatexBlock, ret,
                 history>>

\* line 65
Return ==
  /\ pc = "loop"
  /\ n = Len(lines)
  /\ pc' = "returned"
  /\ ret' = Join(resultLines)
  /\ history' = Append(history, [text |-> text, ret |-> Join(resultLines)])
  /\ UNCHANGED <<host, scan, text, settings, lines, n, inCodeBlock, inLatexBlock,
                 resultLines, steps>>

\* the caller applies processText to the text it got back
Reapply ==
  /\ pc = "returned"
  /\ Len(history) < MaxCalls
  /\ text' = ret
  /\ pc' = "idle"
  /\ lines' = <<>>
  /\ n' = 0
  /\ inCodeBlock' = FALSE
  /\ inLatexBlock' = FALSE
  /\ resultLines' = <<>>
  /\ steps' = <<>>
  /\ ret' = <<>>
  /\ UNCHANGED <<host, scan, settings, history>>

Next == Call \/ FenceLine \/ LatexLine \/ BlockLine \/ ProcessLine \/ Return

NextRepeat == Next \/ Reapply

\* ------------------------------------------------------------------------
\* Inputs
\* ------------------------------------------------------------------------
RECURSIVE Flatten(_)
Flatten(ss) == IF Len(ss) = 0 THEN <<>> ELSE ss[1] \o Flatten(Tail(ss))

\* the lines made of at most maxTokens tokens of pool
TokenLines(pool, maxTokens) ==
  {Flatten(f) : f \in UNION {[1..k -> pool] : k \in 0..maxTokens}}

\* the texts of 1..maxLines lines of pool
Texts(pool, maxLines) ==
  {Join(f) : f \in UNION {[1..k -> pool] : k \in 1..maxLines}}

EmphasisSettings ==
  {c \in SettingsType : c.skipCodeBlocks /\ c.skipInlineCode}

\* texts of several lines with fences and block math delimiters
BlockLines ==
  {<<BT, BT, BT>>, <<TILDE, TILDE, TILDE>>, <<DOLLAR, DOLLAR>>,
   <<DOLLAR, DOLLAR, "a", DOLLAR, DOLLAR>>, <<DOLLAR, DOLLAR, "a">>,
   <<ZH, STAR, STAR, SP, "a", STAR, STAR, ZH>>}

BlockTexts == Texts(BlockLines, MaxBlockLines)

EmphasisTokens ==
  {<<STAR>>, <<STAR, STAR>>, <<STAR, STAR, STAR>>, <<SP>>, <<ZH>>, <<"a">>}

\* lines of src/test.ts (lines 38-149) with one letter or CJK character per
\* word, and lines with two bold spans
ExampleLines ==
  {<<ZH, STAR, STAR, "a", STAR, STAR, ZH, STAR, STAR, "b", STAR, STAR>>,
   <<ZH, STAR, STAR, "a", STAR, STAR, STAR, STAR, "b", STAR, STAR, ZH>>,
   <<ZH, STAR, STAR, ZH, STAR, STAR, ZH, SP, STAR, STAR, ZH, STAR, STAR, ZH>>,
   <<STAR, STAR, SP, SP, "a", SP, "b", SP, SP, STAR, STAR>>,
   <<STAR, SP, SP, "a", SP, "b", SP, SP, STAR>>,
   <<STAR, STAR, STAR, SP, "a", SP, "b", TAB, STAR, STAR, STAR>>,
   <<STAR, SP, STAR, STAR, "a", SP, "b", STAR, STAR>>,
   <<STAR, SP, STAR, STAR, SP, SP, "a", SP, "b", SP, SP, STAR, STAR>>,
   <<SP, SP, STAR, SP, ZH, STAR, "a", STAR, ZH>>,
   <<TAB, STAR, SP, STAR, "a", SP, STAR, ZH>>,
   <<"a", "b", STAR, STAR, "D", "1", STAR, STAR, "a", "b">>,
   <<"a", DOT, STAR, STAR, "a", STAR, STAR>>,
   <<ZH, STAR, STAR, SP, SP, "a", SP, SP, STAR, STAR, ZH>>}

Inputs == TokenLines(EmphasisTokens, MaxTokens) \cup ExampleLines \cup BlockTexts

Init == InitWith(Inputs, EmphasisSettings)

Spec == Init /\ [][Next]_vars
\* a caller that keeps applying processText to its own output
SpecRepeat == InitWith(Inputs, EmphasisSettings) /\ [][NextRepeat]_vars

\* ------------------------------------------------------------------------
\* C1  Idempotence: processText(processText(D, C), C) = processText(D, C)
\* for every text D and settings record C.  Stated on a caller that applies
\* processText to the text it got back: the second result equals the first.
\* ------------------------------------------------------------------------
C1_Idempotent ==
  \A k \in 1..(Len(history) - 1) :
    history[k + 1].text = history[k].ret => history[k + 1].ret = history[k].ret
\* ------------------------------------------------------------------------
\* Lines with inline code
\* ------------------------------------------------------------------------
CodeTokens ==
  {<<BT, "a", BT>>, <<BT, "b", BT>>, <<BT>>, <<SP>>, <<STAR, STAR>>,
   <<DOLLAR>>, <<ZH>>}

CodeSettings ==
  {c \in SettingsType :
     /\ c.skipCodeBlocks
     /\ c.spaceBetweenChineseAndBold = c.removeInternalBoldSpaces
     /\ c.spaceBetweenChineseAndItalic = c.removeInternalBoldSpaces
     /\ c.spaceBetweenEnglishAndBold = c.removeInternalBoldSpaces}

SpecCode ==
  InitWith(TokenLines(CodeTokens, MaxCodeTokens) \cup BlockTexts, CodeSettings)
  /\ [][Next]_vars

\* the matches of the inline code pattern in s from index from on, left to
\* right: the well-formed inline code spans of s
RECURSIVE CodeSpansFrom(_, _)
CodeSpansFrom(s, from) ==
  LET m == ExecFrom(CODE, s, from)
  IN IF m.index < 0 THEN <<>>
     ELSE <<Sub(s, m.index, m.end)>> \o CodeSpansFrom(s, m.end)

\* ------------------------------------------------------------------------
\* C2  Code-span invariance: with skipInlineCode enabled, the inline code
\* spans of a processed line are the same in the output, content and order.
\* ------------------------------------------------------------------------
C2_CodeSpansKept ==
  \A k \in 1..Len(steps) :
    (steps[k].kind = "processed" /\ settings.skipInlineCode)
      => CodeSpansFrom(steps[k].restored, 0) = CodeSpansFrom(steps[k].line, 0)
\* ------------------------------------------------------------------------
\* C3  Fence opacity: with skipCodeBlocks enabled, every line between a
\* fence-opening line (its trimmed form starts with three backticks or
\* three tildes) and the closing fence line that matches it is copied to
\* the output unchanged, whatever the block contains.  A block opened by
\* three backticks is closed by the next line that starts with three
\* backticks, a block opened by three tildes by the next line that starts
\* with three tildes; a fence line of the other kind inside the block is
\* content of the block.
\* ------------------------------------------------------------------------
\* the fence token the line starts with, or "none"
FenceToken(l) ==
  IF StartsWith(Trim(l), <<BT, BT, BT>>) THEN BT
  ELSE IF StartsWith(Trim(l), <<TILDE, TILDE, TILDE>>) THEN TILDE
  ELSE "none"

\* the token of the block that is open after the first k lines of ls, or
\* "none"
RECURSIVE OpenFence(_, _)
OpenFence(ls, k) ==
  IF k = 0 THEN "none"
  ELSE IF OpenFence(ls, k - 1) = "none" THEN FenceToken(ls[k])
  ELSE IF FenceToken(ls[k]) = OpenFence(ls, k - 1) THEN "none"
  ELSE OpenFence(ls, k - 1)

\* line k of ls lies between an opening fence line and the fence line that
\* matches it
InsideFence(ls, k) ==
  OpenFence(ls, k - 1) # "none" /\ FenceToken(ls[k]) # OpenFence(ls, k - 1)

C3_FenceOpacity ==
  settings.skipCodeBlocks =>
    \A k \in 1..Len(resultLines) :
      InsideFence(lines, k) => resultLines[k] = lines[k]
\* ------------------------------------------------------------------------
\* What a stage inserted, read off its input and its output
\* ------------------------------------------------------------------------

\* the indices of out that hold a space that is not in inp, when out is inp
\* with spaces inserted; -1 is in the set when out is anything else
RECURSIVE InsertedFrom(_, _, _, _)
InsertedFrom(inp, out, i, j) ==
  IF j >= Len(out) THEN (IF i >= Len(inp) THEN {} ELSE {-1})
  ELSE IF i < Len(inp) /\ At(inp, i) = At(out, j)
    THEN InsertedFrom(inp, out, i + 1, j + 1)
  ELSE IF At(out, j) = SP THEN {j} \cup InsertedFrom(inp, out, i, j + 1)
  ELSE {-1}

Inserted(inp, out) == InsertedFrom(inp, out, 0, 0)

\* the length of the run of stars of s that starts at p
RECURSIVE RunLength(_, _)
RunLength(s, p) == IF At(s, p) = STAR THEN 1 + RunLength(s, p + 1) ELSE 0

\* the start indices of the maximal runs of stars of s whose length is in
\* widths: the markers of those widths
MarkerStarts(s, widths) ==
  {p \in 0..(Len(s) - 1) :
     At(s, p) = STAR /\ At(s, p - 1) # STAR /\ RunLength(s, p) \in widths}

\* the markers of a stage open and close spans in turn: the 1st, 3rd, ...
\* marker opens, the 2nd, 4th, ... closes
Ordinal(s, widths, p) ==
  Cardinality({r \in MarkerStarts(s, widths) : r <= p})

IsOpeningAt(s, widths, p) ==
  p \in MarkerStarts(s, widths) /\ Ordinal(s, widths, p) % 2 = 1

\* a closing marker of s ends right before index q
ClosingEndsAt(s, widths, q) ==
  \E p \in MarkerStarts(s, widths) :
    p + RunLength(s, p) = q /\ Ordinal(s, widths, p) % 2 = 0

\* the space at index q of s is immediately outside a span
OutsidePair(s, widths, q) ==
  IsOpeningAt(s, widths, q + 1) \/ ClosingEndsAt(s, widths, q)

\* ------------------------------------------------------------------------
\* C4  No internal space introduced: every space that bold spacing or
\* italic spacing inserts lies immediately outside a marker pair, directly
\* before its opening marker or directly after its closing marker.
\* ------------------------------------------------------------------------
C4_NoInternalSpace ==
  \A k \in 1..Len(steps) :
    steps[k].kind = "processed" =>
      /\ \A q \in Inserted(steps[k].removed, steps[k].bold) :
           OutsidePair(steps[k].bold, {2, 3}, q)
      /\ \A q \in Inserted(steps[k].bold, steps[k].italic) :
           OutsidePair(steps[k].italic, {1}, q)
\* ------------------------------------------------------------------------
\* C5  Internal trim: with removeInternalBoldSpaces enabled, a line made of
\* a marker of width 1, 2 or 3, whitespace, content, whitespace and the same
\* marker comes out as marker, content, marker.
\* ------------------------------------------------------------------------
StarFree(s) == \A p \in 0..(Len(s) - 1) : At(s, p) # STAR

\* the text between the two markers of width w of a padded line
Inner(l, w) == Sub(l, w, Len(l) - w)

IsPadded(l, w) ==
  /\ Len(l) >= 2 * w + 3
  /\ Sub(l, 0, w) = Stars(w)
  /\ Sub(l, Len(l) - w, Len(l)) = Stars(w)
  /\ StarFree(Inner(l, w))
  /\ At(l, w) \in {SP, TAB}
  /\ At(l, Len(l) - w - 1) \in {SP, TAB}
  /\ Trim(Inner(l, w)) # <<>>

C5_InternalTrim ==
  \A k \in 1..Len(steps) :
    (steps[k].kind = "processed" /\ settings.removeInternalBoldSpaces) =>
      \A w \in 1..3 :
        IsPadded(steps[k].line, w) =>
          steps[k].restored = Stars(w) \o Trim(Inner(steps[k].line, w)) \o Stars(w)

\* ------------------------------------------------------------------------
\* C6  List-marker protection: a single leading star (after optional
\* indentation) that is followed by whitespace is output unchanged together
\* with its indentation, it is never an emphasis marker, and the rest of
\* the line is processed as it would be after any character that is not a
\* marker: the output is that of the line with a full stop in the place of
\* the star, with the star put back.
\* ------------------------------------------------------------------------
\* the number of whitespace characters the line starts with
Indent(l) ==
  CHOOSE m \in 0..Len(l) :
    /\ \A j \in 0..(m - 1) : At(l, j) \in WhitespaceChars
    /\ At(l, m) \notin WhitespaceChars

IsListLine(l) ==
  At(l, Indent(l)) = STAR /\ At(l, Indent(l) + 1) \in WhitespaceChars

\* s with the character at index p replaced by c
WithCharAt(s, p, c) == [j \in 1..Len(s) |-> IF j = p + 1 THEN c ELSE s[j]]

RECURSIVE SpansFrom(_, _, _)
SpansFrom(s, p, open) ==
  IF p >= Len(s) THEN ~open
  ELSE IF At(s, p) = STAR
    THEN /\ At(s, p + 1) = STAR
         /\ IF open THEN At(s, p - 1) \notin WhitespaceChars \cup {STAR}
            ELSE At(s, p + 2) \notin WhitespaceChars \cup {STAR, Undefined}
         /\ SpansFrom(s, p + 2, ~open)
  ELSE SpansFrom(s, p + 1, open)

IsSpanLine(s) == ~StarFree(s) /\ SpansFrom(s, 0, FALSE)

\* a character next to which the settings ask for a space
AsksForSpace(c, c0) ==
  \/ c = ZH /\ c0.spaceBetweenChineseAndBold
  \/ c \in Letters \cup DigitSet /\ c0.spaceBetweenEnglishAndBold

SpaceIf(b) == IF b THEN <<SP>> ELSE <<>>

RECURSIVE SpacedSpans(_, _, _, _)
SpacedSpans(s, p, open, c0) ==
  IF p >= Len(s) THEN <<>>
  ELSE IF At(s, p) = STAR
    THEN IF open
         THEN <<STAR, STAR>> \o SpaceIf(AsksForSpace(At(s, p + 2), c0))
                \o SpacedSpans(s, p + 2, FALSE, c0)
         ELSE SpaceIf(AsksForSpace(At(s, p - 1), c0)) \o <<STAR, STAR>>
                \o SpacedSpans(s, p + 2, TRUE, c0)
  ELSE <<At(s, p)>> \o SpacedSpans(s, p + 1, open, c0)

C7_BoldSymmetry ==
  \A k \in 1..Len(steps) :
    (/\ steps[k].kind = "processed"
     /\ settings.spaceBetweenChineseAndBold
     /\ IsSpanLine(steps[k].line)) =>
      steps[k].restored = SpacedSpans(steps[k].line, 0, FALSE, settings)

\* ------------------------------------------------------------------------
\* C8  English suppression: with spaceBetweenEnglishAndBold false no stage
\* inserts a space between an ASCII letter or digit and a bold marker; with
\* it true a line word, two stars, word, two stars, word gets one space on
\* each side of the span, whatever spaceBetweenChineseAndBold is.
\* ------------------------------------------------------------------------
IsLetterOrDigit(c) == c \in Letters \cup DigitSet

\* the space at index q of s stands between a letter or digit and two or
\* more stars
BetweenWordAndBold(s, q) ==
  \/ IsLetterOrDigit(At(s, q - 1)) /\ At(s, q + 1) = STAR /\ At(s, q + 2) = STAR
  \/ IsLetterOrDigit(At(s, q + 1)) /\ At(s, q - 1) = STAR /\ At(s, q - 2) = STAR

\* l is word, two stars, word, two stars, word
IsWordBoldWord(l) ==
  /\ Cardinality(MarkerStarts(l, {2})) = 2
  /\ \A p \in 0..(Len(l) - 1) : At(l, p) = STAR \/ IsLetterOrDigit(At(l, p))
  /\ \A p \in MarkerStarts(l, {2}) : At(l, p - 1) # Undefined /\ At(l, p + 2) # Undefined
  /\ \A p \in 0..(Len(l) - 1) : At(l, p) = STAR => RunLength(l, p) <= 2

\* l with a space before the first marker and after the second
SpacedOutside(l) ==
  LET p1 == CHOOSE p \in MarkerStarts(l, {2}) : \A r \in MarkerStarts(l, {2}) : p <= r
      p2 == CHOOSE p \in MarkerStarts(l, {2}) : \A r \in MarkerStarts(l, {2}) : r <= p
  IN Sub(l, 0, p1) \o <<SP>> \o Sub(l, p1, p2 + 2) \o <<SP>> \o Sub(l, p2 + 2, Len(l))

C8_EnglishSuppression ==
  \A k \in 1..Len(steps) :
    steps[k].kind = "processed" =>
      /\ ~settings.spaceBetweenEnglishAndBold =>
           /\ \A q \in Inserted(steps[k].removed, steps[k].bold) :
                ~BetweenWordAndBold(steps[k].bold, q)
           /\ \A q \in Inserted(steps[k].bold, steps[k].italic) :
                ~BetweenWordAndBold(steps[k].italic, q)
           /\ IsWordBoldWord(steps[k].line) => steps[k].restored = steps[k].line
      /\ (settings.spaceBetweenEnglishAndBold /\ IsWordBoldWord(steps[k].line)) =>
           steps[k].restored = SpacedOutside(steps[k].line)

\* the line of src/test.ts line 116 has got its two spaces with English
\* spacing on and Chinese spacing off
C8_Witness ==
  /\ pc = "returned"
  /\ settings.spaceBetweenEnglishAndBold
  /\ ~settings.spaceBetweenChineseAndBold
  /\ \E k \in 1..Len(steps) :
       /\ steps[k].kind = "processed"
       /\ steps[k].line = <<"a", "b", STAR, STAR, "D", "1", STAR, STAR, "a", "b">>
       /\ steps[k].restored =
            <<"a", "b", SP, STAR, STAR, "D", "1", STAR, STAR, SP, "a", "b">>

\* ------------------------------------------------------------------------
\* C9  Triple-marker handling: a span between two three-star markers is one
\* width-3 pair: bold spacing puts one space outside each marker where the
\* settings ask for it (with CJK text on both sides and Chinese spacing on,
\* on both sides), the three stars stay together, and the italic stage adds
\* nothing.
\* ------------------------------------------------------------------------
\* l is text, three stars, content, three stars, text, the content neither
\* empty nor starting or ending with whitespace
IsTripleSpanLine(l) ==
  /\ Cardinality(MarkerStarts(l, {3})) = 2
  /\ \A p \in 0..(Len(l) - 1) : At(l, p) = STAR => RunLength(l, p) <= 3
  /\ Cardinality({p \in 0..(Len(l) - 1) : At(l, p) = STAR}) = 6
  /\ \E p \in MarkerStarts(l, {3}) : \E r \in MarkerStarts(l, {3}) :
       /\ p < r
       /\ At(l, p + 3) \notin WhitespaceChars
       /\ At(l, r - 1) \notin WhitespaceChars

\* l with a space outside each of its two three-star markers where the
\* settings ask for one
SpacedTriple(l, c0) ==
  LET p1 == CHOOSE p \in MarkerStarts(l, {3}) : \A r \in MarkerStarts(l, {3}) : p <= r
      p2 == CHOOSE p \in MarkerStarts(l, {3}) : \A r \in MarkerStarts(l, {3}) : r <= p
  IN Sub(l, 0, p1) \o SpaceIf(AsksForSpace(At(l, p1 - 1), c0))
       \o Sub(l, p1, p2 + 3)
       \o SpaceIf(AsksForSpace(At(l, p2 + 3), c0)) \o Sub(l, p2 + 3, Len(l))

C9_TripleMarker ==
  \A k \in 1..Len(steps) :
    (steps[k].kind = "processed" /\ IsTripleSpanLine(steps[k].line)) =>
      /\ steps[k].bold = SpacedTriple(steps[k].line, settings)
      /\ steps[k].italic = steps[k].bold
      /\ steps[k].restored = steps[k].bold

\* the line of src/test.ts line 50 has got one space outside each marker
C9_Witness ==
  /\ pc = "returned"
  /\ settings.spaceBetweenChineseAndBold
  /\ settings.spaceBetweenChineseAndItalic
  /\ \E k \in 1..Len(steps) :
       /\ steps[k].kind = "processed"
       /\ steps[k].line = <<ZH, STAR, STAR, STAR, "a", STAR, STAR, STAR, ZH>>
       /\ steps[k].restored =
            <<ZH, SP, STAR, STAR, STAR, "a", STAR, STAR, STAR, SP, ZH>>

\* ------------------------------------------------------------------------
\* C10  Italic spacing is CJK-only: with spaceBetweenChineseAndItalic
\* enabled the italic stage leaves no opening one-star marker directly
\* after a CJK character and no closing one directly before a CJK
\* character; every space it inserts stands between a CJK character and
\* the outside of a one-star marker; and no stage under any settings
\* inserts a space between a one-star marker and a character that is not
\* CJK.
\* ------------------------------------------------------------------------
\* the space at index q of s is next to a one-star marker and the character
\* on its other side is not CJK
BetweenItalicAndOther(s, q) ==
  \/ (q + 1) \in MarkerStarts(s, {1}) /\ At(s, q - 1) # ZH
  \/ (q - 1) \in MarkerStarts(s, {1}) /\ At(s, q + 1) # ZH

C10_ItalicCjkOnly ==
  \A k \in 1..Len(steps) :
    steps[k].kind = "processed" =>
      /\ \A q \in Inserted(steps[k].bold, steps[k].italic) :
           \/ IsOpeningAt(steps[k].italic, {1}, q + 1) /\ At(steps[k].italic, q - 1) = ZH
           \/ ClosingEndsAt(steps[k].italic, {1}, q) /\ At(steps[k].italic, q + 1) = ZH
      /\ \A q \in Inserted(steps[k].removed, steps[k].bold) :
           ~BetweenItalicAndOther(steps[k].bold, q)
      /\ settings.spaceBetweenChineseAndItalic =>
           \A p \in MarkerStarts(steps[k].italic, {1}) :
             IF IsOpeningAt(steps[k].italic, {1}, p)
             THEN At(steps[k].italic, p - 1) # ZH
             ELSE At(steps[k].italic, p + 1) # ZH

\* CJK, one star, text, one star, CJK has got its two spaces
C10_Witness ==
  /\ pc = "returned"
  /\ settings.spaceBetweenChineseAndItalic
  /\ \E k \in 1..Len(steps) :
       /\ steps[k].kind = "processed"
       /\ steps[k].line = <<ZH, STAR, "a", STAR, ZH>>
       /\ steps[k].restored = <<ZH, SP, STAR, "a", STAR, SP, ZH>>

\* ------------------------------------------------------------------------
\* Lines with inline math
\* ------------------------------------------------------------------------
MathTokens ==
  {<<DOLLAR>>, <<BSLASH>>, <<STAR>>, <<"a">>, <<ZH>>, <<AMP>>, <<SP>>}

\* the spacing options all on or all off, inline code protection on or off
MathSettings ==
  {c \in SettingsType :
     /\ c.skipCodeBlocks
     /\ c.spaceBetweenChineseAndBold = c.removeInternalBoldSpaces
     /\ c.spaceBetweenChineseAndItalic = c.removeInternalBoldSpaces
     /\ c.spaceBetweenEnglishAndBold = c.removeInternalBoldSpaces}

SpecMath ==
  InitWith(TokenLines(MathTokens, MaxMathTokens) \cup BlockTexts, MathSettings)
  /\ [][Next]_vars

\* the matches of the inline math pattern in s from index from on, left to
\* right: the well-formed inline math spans of s
RECURSIVE MathSpansFrom(_, _)
MathSpansFrom(s, from) ==
  LET m == ExecFrom(LATEX, s, from)
  IN IF m.index < 0 THEN <<>>
     ELSE <<Sub(s, m.index, m.end)>> \o MathSpansFrom(s, m.end)

\* ------------------------------------------------------------------------
\* C11  Inline math protection: under every settings record the inline math
\* spans of a processed line (dollar, body in which a backslash escapes the
\* next character, dollar; the opening dollar not after a backslash) are
\* the same in the output, content and order.  Stated for the lines whose
\* spans all have a body of at least one character.
\* ------------------------------------------------------------------------
NonEmptyBodies(spans) == \A j \in 1..Len(spans) : Len(spans[j]) >= 3

C11_MathSpansKept ==
  \A k \in 1..Len(steps) :
    (/\ steps[k].kind = "processed"
     /\ NonEmptyBodies(MathSpansFrom(steps[k].line, 0))) =>
      MathSpansFrom(steps[k].restored, 0) = MathSpansFrom(steps[k].line, 0)

\* ------------------------------------------------------------------------
\* C12  Protect/restore round trip: restoring the sections that protectLine
\* recorded into the protected line gives back the line; so with internal
\* space removal, both bold options and the italic option off, processText
\* returns the text it was given.
\* ------------------------------------------------------------------------
NothingEnabled(c0) ==
  /\ ~c0.removeInternalBoldSpaces
  /\ ~c0.spaceBetweenChineseAndBold
  /\ ~c0.spaceBetweenEnglishAndBold
  /\ ~c0.spaceBetweenChineseAndItalic

C12_RoundTrip ==
  /\ \A k \in 1..Len(steps) :
       steps[k].kind = "processed" =>
         restoreProtectedSections(steps[k].protectedLine, steps[k].sections)
           = steps[k].line
  /\ (pc = "returned" /\ NothingEnabled(settings)) => ret = text

\* ------------------------------------------------------------------------
\* C13  Block math handling: a line whose trimmed form starts with two
\* dollars is passed through unchanged; it toggles inLatexBlock exactly when
\* it is the bare token or does not also end with two dollars (a closing
\* pair after the opening one); a one-line construct does not toggle, so in
\* a text without fence lines a line is processed exactly when it is no
\* delimiter line and no block math region is open; every line between a
\* toggling line that opens and the next toggling line is passed through
\* unchanged.
\* ------------------------------------------------------------------------
StartsMath(l) == StartsWith(Trim(l), <<DOLLAR, DOLLAR>>)

\* the trimmed line has a closing pair of dollars after the opening pair
AlsoEndsMath(l) ==
  /\ Len(Trim(l)) >= 4
  /\ Sub(Trim(l), Len(Trim(l)) - 2, Len(Trim(l))) = <<DOLLAR, DOLLAR>>

TogglingMathLine(l) ==
  StartsMath(l) /\ (Trim(l) = <<DOLLAR, DOLLAR>> \/ ~AlsoEndsMath(l))

\* a block math region is open after the first k lines of ls
MathOpenAfter(ls, k) ==
  Cardinality({j \in 1..k : TogglingMathLine(ls[j])}) % 2 = 1

\* none of the first k lines of ls is a fence line
NoFenceUpTo(ls, k) == \A j \in 1..k : FenceToken(ls[j]) = "none"

C13_BlockMath ==
  /\ pc \in {"loop", "returned"} => inLatexBlock = MathOpenAfter(lines, n)
  /\ \A k \in 1..Len(steps) :
       /\ StartsMath(lines[k]) => resultLines[k] = lines[k]
       /\ MathOpenAfter(lines, k - 1) => resultLines[k] = lines[k]
       /\ NoFenceUpTo(lines, k) =>
            (steps[k].kind = "processed" <=>
               ~StartsMath(lines[k]) /\ ~MathOpenAfter(lines, k - 1))

\* a one-line construct is followed by a line that processLine has changed,
\* and later a line of the same text lies inside a block math region and is
\* unchanged
C13_Witness ==
  /\ pc = "returned"
  /\ settings.removeInternalBoldSpaces
  /\ Len(lines) = 4
  /\ lines[1] = <<DOLLAR, DOLLAR, "a", DOLLAR, DOLLAR>>
  /\ lines[2] = <<ZH, STAR, STAR, SP, "a", STAR, STAR, ZH>>
  /\ resultLines[2] # lines[2]
  /\ lines[3] = <<DOLLAR, DOLLAR, "a">>
  /\ lines[4] = lines[2]
  /\ resultLines[4] = lines[4]

\* ------------------------------------------------------------------------
\* A caller that calls processText several times with texts of its choice
\* ------------------------------------------------------------------------
\* lines that leave a fenced block, a block math region or a marker open
CallLines ==
  {<<BT, BT, BT>>, <<DOLLAR, DOLLAR>>, <<ZH, STAR, STAR, SP, "a">>}

CallTexts == Texts(CallLines, MaxCallLines)

\* the spacing options all on or all off
CallSettings ==
  {c \in EmphasisSettings :
     /\ c.spaceBetweenChineseAndBold = c.removeInternalBoldSpaces
     /\ c.spaceBetweenChineseAndItalic = c.removeInternalBoldSpaces
     /\ c.spaceBetweenEnglishAndBold = c.removeInternalBoldSpaces}

\* the caller passes another text; the locals of the finished call are
\* whatever it left behind until the next call sets them
NewCall ==
  /\ pc = "returned"
  /\ Len(history) < MaxCalls
  /\ text' \in CallTexts
  /\ pc' = "idle"
  /\ UNCHANGED <<host, scan, settings, lines, n, inCodeBlock, inLatexBlock, resultLines,
                 steps, ret, history>>

NextCalls == Next \/ NewCall

SpecCalls == InitWith(CallTexts, CallSettings) /\ [][NextCalls]_vars

\* ------------------------------------------------------------------------
\* C14  Purity across invocations: whatever calls came before, a call
\* starts its loop with inCodeBlock and inLatexBlock false, and two calls
\* with the same text (the settings are those of the caller) return the
\* same result.
\* ------------------------------------------------------------------------
C14_Purity ==
  /\ (pc = "loop" /\ n = 0) => (~inCodeBlock /\ ~inLatexBlock)
  /\ \A i \in 1..Len(history) : \A j \in 1..Len(history) :
       history[i].text = history[j].text => history[i].ret = history[j].ret

\* a call that ended inside an unclosed fenced block was followed by a call
\* on a line with an unterminated marker, and that line has been processed
C14_Witness ==
  /\ pc = "returned"
  /\ Len(history) = 2
  /\ history[1].text = <<BT, BT, BT>>
  /\ history[2].text = <<ZH, STAR, STAR, SP, "a">>
  /\ history[2].ret = <<ZH, SP, STAR, STAR, "a">>

\* ------------------------------------------------------------------------
\* The spacing predicates applied to one character
\* ------------------------------------------------------------------------
\* the empty text stands for an absent character
CharTexts ==
  {<<>>} \cup
  {<<c>> : c \in Letters \cup DigitSet \cup
                 {SP, TAB, NL, NBSP, ZH, FWCOMMA, DOT, STAR, DOLLAR, BT, NUL,
                  BSLASH, AMP, TILDE}}

\* shouldAddSpaceBefore(text[0], settings), shouldAddSpaceAfter(text[0], settings)
AskPredicates ==
  /\ pc = "idle"
  /\ pc' = "asked"
  /\ steps' = <<[kind |-> "predicates",
                 char |-> At(text, 0),
                 before |-> shouldAddSpaceBefore(At(text, 0), settings),
                 after |-> shouldAddSpaceAfter(At(text, 0), settings)]>>
  /\ UNCHANGED <<host, scan, text, settings, lines, n, inCodeBlock, inLatexBlock,
                 resultLines, ret, history>>

SpecPredicates == InitWith(CharTexts, SettingsType) /\ [][AskPredicates]_vars

\* ------------------------------------------------------------------------
\* C15  Spacing predicates: both return false for an absent character, a
\* space and a tab (and the one for the character after also for a
\* newline); otherwise the spaceBetweenChineseAndBold setting for a
\* character of U+4E00..U+9FA5, the spaceBetweenEnglishAndBold setting for
\* an ASCII letter or digit, and false for every other character; the two
\* agree on every character other than a newline.
\* ------------------------------------------------------------------------
ExpectedAnswer(c, c0) ==
  IF c \in {Undefined, SP, TAB} THEN FALSE
  ELSE IF c = ZH THEN c0.spaceBetweenChineseAndBold
  ELSE IF c \in Letters \cup DigitSet THEN c0.spaceBetweenEnglishAndBold
  ELSE FALSE

C15_SpacingPredicates ==
  \A k \in 1..Len(steps) :
    steps[k].kind = "predicates" =>
      /\ steps[k].before = ExpectedAnswer(steps[k].char, settings)
      /\ steps[k].after =
           (IF steps[k].char = NL THEN FALSE
            ELSE ExpectedAnswer(steps[k].char, settings))
      /\ steps[k].char # NL => steps[k].before = steps[k].after

\* the predicates have been asked about a CJK character with the Chinese
\* option on and the English option off, and both answered true
C15_Witness ==
  /\ pc = "asked"
  /\ steps[1].char = ZH
  /\ settings.spaceBetweenChineseAndBold
  /\ ~settings.spaceBetweenEnglishAndBold
  /\ steps[1].before /\ steps[1].after

\* ------------------------------------------------------------------------
\* The plugin in its host (main.ts): onload, loadSettings and the three
\* editor commands.  host is a record:
\*   phase     "constructed" until onload has run, then "loaded"
\*   data      what loadData() yields: stored = FALSE for null, otherwise
\*             the persisted record (a function on some of the option names)
\*   settings  this.settings
\*   doc, cursor   the editor's content and cursor (an opaque position)
\*   commands  the number of commands run
\*   last      the last command run: its id, its showNotice argument, the
\*             document and cursor it found, and the calls formatEditor
\*             made, in order, as [call, arg, result]
\*   built, decorations   whether the live-preview plugin of the editor view
\*             has been constructed, and its decoration set
\* ------------------------------------------------------------------------
MaxCommands == 1
MaxCursor == 1

\* lines 15-22
DEFAULT_SETTINGS ==
  [removeInternalBoldSpaces |-> TRUE,
   spaceBetweenChineseAndBold |-> TRUE,
   spaceBetweenEnglishAndBold |-> FALSE,
   spaceBetweenChineseAndItalic |-> TRUE,
   skipCodeBlocks |-> TRUE,
   skipInlineCode |-> TRUE]

SettingKeys == DOMAIN DEFAULT_SETTINGS

\* Object.assign(target, source): the own properties of source are copied
\* onto target; a null source is skipped
ObjectAssign(target, source) ==
  IF ~source.stored THEN target
  ELSE [k \in (DOMAIN target) \cup (DOMAIN source.record) |->
          IF k \in DOMAIN source.record THEN source.record[k] ELSE target[k]]

Stored(record) == [stored |-> TRUE, record |-> record]

\* the defaults copied last, over the persisted values
loadSettingsDefaultsLast(h) ==
  [h EXCEPT !.settings =
     ObjectAssign(ObjectAssign(<<>>, h.data), Stored(DEFAULT_SETTINGS))]

\* lines 70-72
loadSettings(h) ==
  [h EXCEPT !.settings =
     ObjectAssign(ObjectAssign(<<>>, Stored(DEFAULT_SETTINGS)), h.data)]

\* what the editor does on setValue: the content is replaced and the cursor
\* ends wherever the editor puts it
EditorSetValue(h, value, movedTo) ==
  [h EXCEPT !.doc = value, !.cursor = movedTo]

EditorSetCursor(h, position) == [h EXCEPT !.cursor = position]

NoticeFixed == "Bold/Italic spacing fixed!"
NoticeNoChanges == "No changes needed."

Called(call, arg, result) == [call |-> call, arg |-> arg, result |-> result]

NoticeIf(showNotice, message) ==
  IF showNotice THEN <<Called("Notice", message, <<>>)>> ELSE <<>>

\* a formatEditor that writes the document without comparing
formatEditorAlwaysWrites(h, showNotice, newContent, movedTo) ==
  LET content == h.doc
      cursor == h.cursor
  IN [editor |-> EditorSetCursor(EditorSetValue(h, newContent, movedTo), cursor),
      calls |-> <<Called("getValue", <<>>, content),
                  Called("processText", content, newContent),
                  Called("getCursor", <<>>, cursor),
                  Called("setValue", newContent, <<>>),
                  Called("setCursor", cursor, <<>>)>>
                \o NoticeIf(showNotice, NoticeFixed)]

\* lines 81-94.  newContent is the value this.processText(content) returned
\* and movedTo the cursor position the editor chose on setValue.
formatEditor(h, showNotice, newContent, movedTo) ==
  LET content == h.doc
      computed == <<Called("getValue", <<>>, content),
                    Called("processText", content, newContent)>>
  IN IF content # newContent
     THEN LET cursor == h.cursor
          IN [editor |-> EditorSetCursor(
                           EditorSetValue(h, newContent, movedTo), cursor),
              calls |-> computed
                        \o <<Called("getCursor", <<>>, cursor),
                             Called("setValue", newContent, <<>>),
                             Called("setCursor", cursor, <<>>)>>
                        \o NoticeIf(showNotice, NoticeFixed)]
     ELSE [editor |-> h,
           calls |-> computed \o NoticeIf(showNotice, NoticeNoChanges)]

\* the documents the editor holds and the texts this.processText returns.
\* formatEditor is modelled for any text processText may return: what it
\* does depends on that text only through the comparison with the content.
HostTexts ==
  {<<ZH, STAR, STAR, "a", STAR, STAR, ZH>>,
   <<ZH, SP, STAR, STAR, "a", STAR, STAR, SP, ZH>>}

\* loadData(): null, or a record holding any of the options
PersistedData ==
  {[stored |-> FALSE, record |-> <<>>]}
  \cup {Stored(r) : r \in UNION {[K -> BOOLEAN] : K \in SUBSET SettingKeys}}

\* no call of processor.ts is in progress; the plugin is constructed over
\* some persisted data and the editor holds some document and cursor
InitHost ==
  /\ text = <<>>
  /\ settings = DEFAULT_SETTINGS
  /\ pc = "host"
  /\ lines = <<>>
  /\ n = 0
  /\ inCodeBlock = FALSE
  /\ inLatexBlock = FALSE
  /\ resultLines = <<>>
  /\ steps = <<>>
  /\ ret = <<>>
  /\ history = <<>>
  /\ scan = NoScan
  /\ \E d \in PersistedData, t \in HostTexts, c \in 0..MaxCursor :
       host = [NotLoaded EXCEPT !.data = d, !.doc = t, !.cursor = c]

ProcessorVars ==
  <<text, settings, pc, lines, n, inCodeBlock, inLatexBlock, resultLines,
    steps, ret, history, scan>>

\* lines 30-64: the settings are loaded, then the commands are registered
OnLoad ==
  /\ host.phase = "constructed"
  /\ host' = [loadSettings(host) EXCEPT !.phase = "loaded"]
  /\ UNCHANGED ProcessorVars

\* an editorCallback of a registered command
Command(id, showNotice) ==
  /\ host.phase = "loaded"
  /\ host.commands < MaxCommands
  /\ \E newContent \in HostTexts, movedTo \in 0..MaxCursor :
       LET r == formatEditor(host, showNotice, newContent, movedTo)
       IN host' = [r.editor EXCEPT
                     !.commands = @ + 1,
                     !.last = [id |-> id, showNotice |-> showNotice,
                               doc |-> host.doc, cursor |-> host.cursor,
                               calls |-> r.calls]]
  /\ UNCHANGED ProcessorVars

\* lines 34-40
FixAllSpacing == Command("fix-all-spacing", TRUE)

\* lines 43-49
FixBoldSpacing == Command("fix-bold-spacing", TRUE)

\* lines 52-58
FixAllSpacingSilent == Command("fix-all-spacing-silent", FALSE)

NextHost == OnLoad \/ FixAllSpacing \/ FixBoldSpacing \/ FixAllSpacingSilent

SpecHost == InitHost /\ [][NextHost]_vars

\* ------------------------------------------------------------------------
\* C16  Host command protocol.  Whenever a command has run: formatEditor
\* first read the whole content and computed the new text from it, and only
\* then touched the editor; if the new text differs from the content it read
\* the cursor, called setValue once with the new text and then setCursor with
\* the position it had read, so the document is the new text and the cursor
\* is where it was; if the new text is identical it made no setValue or
\* setCursor call, the document and cursor are as before, and the notice
\* 'No changes needed.' was shown exactly when notices are enabled; the
\* silent command shows no notice in either case.
\* ------------------------------------------------------------------------
CallsNamed(calls, name) == {i \in 1..Len(calls) : calls[i].call = name}

C16_HostProtocol ==
  host.commands > 0 =>
    LET L == host.last.calls
        changed == L[2].result # L[1].result
    IN /\ L[1] = Called("getValue", <<>>, host.last.doc)
       /\ L[2].call = "processText" /\ L[2].arg = host.last.doc
       /\ \A i \in 1..Len(L) :
            L[i].call \in {"setValue", "setCursor", "getCursor", "Notice"}
              => i > 2
       /\ changed =>
            /\ Len(L) >= 5
            /\ L[3] = Called("getCursor", <<>>, host.last.cursor)
            /\ L[4] = Called("setValue", L[2].result, <<>>)
            /\ L[5] = Called("setCursor", host.last.cursor, <<>>)
            /\ CallsNamed(L, "setValue") = {4}
            /\ host.doc = L[2].result
            /\ host.cursor = host.last.cursor
       /\ ~changed =>
            /\ CallsNamed(L, "setValue") = {}
            /\ CallsNamed(L, "setCursor") = {}
            /\ host.doc = host.last.doc
            /\ host.cursor = host.last.cursor
            /\ IF host.last.showNotice
               THEN L[Len(L)] = Called("Notice", NoticeNoChanges, <<>>)
                    /\ CallsNamed(L, "Notice") = {Len(L)}
               ELSE CallsNamed(L, "Notice") = {}
       /\ host.last.id = "fix-all-spacing-silent"
            => CallsNamed(L, "Notice") = {}

\* the silent command replaced the document and put the cursor back
C16_Witness ==
  /\ host.commands > 0
  /\ host.last.id = "fix-all-spacing-silent"
  /\ host.doc # host.last.doc
  /\ host.last.cursor = 1
  /\ Len(host.last.calls) = 5

\* ------------------------------------------------------------------------
\* C17  Settings defaults.  Once the settings are loaded, every option the
\* persisted record does not hold has its default, which is TRUE for every
\* option except spaceBetweenEnglishAndBold, and every option the persisted
\* record holds has the persisted value.
\* ------------------------------------------------------------------------
C17_SettingsDefaults ==
  host.phase = "loaded" =>
    /\ DOMAIN host.settings = SettingKeys
    /\ \A k \in SettingKeys :
         host.settings[k] =
           IF host.data.stored /\ k \in DOMAIN host.data.record
           THEN host.data.record[k]
           ELSE k # "spaceBetweenEnglishAndBold"

\* a persisted record holding two of the options, both against the default
C17_Witness ==
  /\ host.phase = "loaded"
  /\ host.data.stored
  /\ DOMAIN host.data.record
       = {"spaceBetweenEnglishAndBold", "skipInlineCode"}
  /\ host.data.record["spaceBetweenEnglishAndBold"]
  /\ ~host.data.record["skipInlineCode"]
  /\ host.settings["spaceBetweenEnglishAndBold"]
  /\ ~host.settings["skipInlineCode"]
  /\ host.settings["skipCodeBlocks"]

\* ------------------------------------------------------------------------
\* The live-preview plugin on the editor view
\* ------------------------------------------------------------------------

\* lines 211-213: the view plugin is constructed on the document, which is
\* the text the formatter is given; nothing is dispatched to the view, so the
\* document the view holds afterwards is the one it held before
BuildDecorations ==
  /\ pc = "returned"
  /\ ~host.built
  /\ host' = [host EXCEPT !.built = TRUE,
                          !.doc = text,
                          !.decorations = buildDecorations(text, settings)]
  /\ UNCHANGED ProcessorVars

\* the documents of the view: one line of emphasis tokens, or two lines
PreviewTexts ==
  TokenLines(EmphasisTokens, MaxTokens)
  \cup Texts({<<ZH, STAR, STAR, "a", STAR, STAR, ZH>>, <<SP>>, <<>>,
              <<ZH, STAR, "a", STAR, ZH>>, <<BT, BT, BT>>,
              <<DOLLAR, DOLLAR>>}, MaxCallLines)

NextPreview == Next \/ BuildDecorations

SpecPreview == InitWith(PreviewTexts, EmphasisSettings) /\ [][NextPreview]_vars

\* ------------------------------------------------------------------------
\* C18  Live-preview hints match the formatter.  Once the formatter has
\* returned and the hints are built on the same text and settings: the
\* document is unchanged, and for every line whose bold and italic stages ran
\* on the line as written (nothing in it was protected or removed before
\* them), the offsets in the line at which a hint is placed are exactly the
\* offsets at which the two stages inserted a space.
\* ------------------------------------------------------------------------

\* the offset in the text of the first character of line k
RECURSIVE LineStartOf(_, _)
LineStartOf(ls, k) ==
  IF k <= 1 THEN 0 ELSE LineStartOf(ls, k - 1) + Len(ls[k - 1]) + 1

\* the offsets in line k at which a hint of decorations lies
HintOffsets(decorations, ls, k) ==
  {decorations[d].from - LineStartOf(ls, k) :
     d \in {e \in 1..Len(decorations) :
              /\ decorations[e].from >= LineStartOf(ls, k)
              /\ decorations[e].from <= LineStartOf(ls, k) + Len(ls[k])}}

\* the offsets in inp at which out has a space inserted
InsertedOffsets(inp, out) ==
  LET ins == Inserted(inp, out)
  IN {j - Cardinality({m \in ins : m < j}) : j \in ins}

C18_HintsMatchFormatter ==
  (pc = "returned" /\ host.built) =>
    /\ host.doc = text
    /\ \A k \in 1..Len(steps) :
         (steps[k].kind = "processed" /\ steps[k].removed = steps[k].line)
           => HintOffsets(host.decorations, lines, k)
                = InsertedOffsets(steps[k].removed, steps[k].italic)

\* ------------------------------------------------------------------------
\* The three scans, one loop iteration at a time.  scan is a record:
\*   kind   "remove", "bold" or "italic": removeInternalSpaces,
\*          fixBoldSpacing or fixItalicSpacing called on the line text
\*   st     the locals of the call (i, result and the stack or flag)
\*   open   the widths of the markers the scan took as opening and has not
\*          yet taken a closing marker for, oldest first
\*   log    per iteration: the index i it looked at, the width of the
\*          marker it recognised there (0: none, the character is copied),
\*          whether it took the marker as closing, and open before it
\* ------------------------------------------------------------------------
ScanStart(kind) ==
  IF kind = "remove" THEN [i |-> 0, result |-> <<>>, markerStack |-> <<>>]
  ELSE IF kind = "bold" THEN [i |-> 0, result |-> <<>>, isBold |-> FALSE]
  ELSE [i |-> 0, result |-> <<>>, isItalic |-> FALSE]

\* the width of the marker the if-chain of the loop recognises at i
\* (lines 180-195, 254-262 and 309-320, 323)
RecognisedAt(kind, line, i) ==
  IF isMarker(line, i, 3) THEN 3
  ELSE IF isMarker(line, i, 2) THEN 2
  ELSE IF kind # "bold" /\ isMarker(line, i, 1) THEN 1
  ELSE 0

\* whether the marker of width count is handled by the closing branch
\* (lines 215, 272 and 324); the italic scan passes ** and *** through
TakenAsClosing(kind, st, count) ==
  IF count = 0 THEN FALSE
  ELSE IF kind = "remove" THEN IsClosing(st.markerStack, Stars(count))
  ELSE IF kind = "bold" THEN st.isBold
  ELSE count = 1 /\ st.isItalic

ScanStep(kind, line, st, config) ==
  IF kind = "remove" THEN RemoveStep(line, st)
  ELSE IF kind = "bold" THEN BoldStep(line, st, config)
  ELSE ItalicStep(line, st, config)

\* open after a marker of width count was taken as opening or closing
OpenAfter(kind, open, count, closing) ==
  IF count = 0 \/ (kind = "italic" /\ count # 1) THEN open
  ELSE IF closing
    THEN (IF Len(open) > 0 THEN Sub(open, 0, Len(open) - 1) ELSE open)
  ELSE Append(open, count)

\* a scan function is called on the line
ScanCall ==
  /\ pc = "idle"
  /\ \E kind \in {"remove", "bold", "italic"} :
       scan' = [kind |-> kind, st |-> ScanStart(kind), open |-> <<>>,
                log |-> <<>>]
  /\ pc' = "scan"
  /\ UNCHANGED <<text, settings, lines, n, inCodeBlock, inLatexBlock,
                 resultLines, steps, ret, history, host>>

Iteration(kind) ==
  /\ pc = "scan"
  /\ scan.kind = kind
  /\ scan.st.i < Len(text)
  /\ LET count == RecognisedAt(kind, text, scan.st.i)
         closing == TakenAsClosing(kind, scan.st, count)
     IN scan' = [scan EXCEPT
                   !.st = ScanStep(kind, text, scan.st, settings),
                   !.open = OpenAfter(kind, scan.open, count, closing),
                   !.log = Append(@, [i |-> scan.st.i, count |-> count,
                                      closing |-> closing,
                                      open |-> scan.open])]
  /\ UNCHANGED <<text, settings, pc, lines, n, inCodeBlock, inLatexBlock,
                 resultLines, steps, ret, history, host>>

\* one iteration of the while loop of lines 178-195
RemoveIteration == Iteration("remove")

\* one iteration of the while loop of lines 249-262
BoldIteration == Iteration("bold")

\* one iteration of the while loop of lines 307-347
ItalicIteration == Iteration("italic")

\* return result (lines 236, 291, 357)
ScanReturn ==
  /\ pc = "scan"
  /\ scan.kind \in {"remove", "bold", "italic"}
  /\ scan.st.i >= Len(text)
  /\ pc' = "scanned"
  /\ ret' = scan.st.result
  /\ UNCHANGED <<text, settings, lines, n, inCodeBlock, inLatexBlock,
                 resultLines, steps, history, host, scan>>

NextScan ==
  ScanCall \/ RemoveIteration \/ BoldIteration \/ ItalicIteration
    \/ ScanReturn

\* the lines a scan is called on: lines of emphasis tokens, protected
\* lines, which hold placeholders, and a bold span with a star inside
SpecScan ==
  InitWith(TokenLines(EmphasisTokens, MaxTokens)
             \cup {protectLine(l, DEFAULT_SETTINGS).protectedLine :
                     l \in ExampleLines}
             \cup {<<ZH, ZH, STAR, STAR, "2", STAR, "3", "=", "6", STAR,
                     STAR, ZH, ZH>>},
           CallSettings)
    /\ [][NextScan]_vars

\* ------------------------------------------------------------------------
\* C19  Exact-run marker detection.  In each of the three scans, whenever
\* an iteration recognises a marker of width W at index i, the stars at
\* i .. i+W-1 are a whole maximal run of stars of the line: there is no
\* star right before i and the run of stars starting at i has length W.
\* In particular no part of a run of four or more stars is recognised.
\* ------------------------------------------------------------------------
C19_ExactRun ==
  \A m \in 1..Len(scan.log) :
    scan.log[m].count > 0 =>
      /\ At(text, scan.log[m].i - 1) # STAR
      /\ RunLength(text, scan.log[m].i) = scan.log[m].count

\* ------------------------------------------------------------------------
\* C20  Open/close classification by width.  In the internal-space removal
\* scan and in the bold spacing scan, a recognised marker of width W is
\* taken as closing exactly when the most recently opened marker that is
\* still open has width W; so the marker a closing marker closes always has
\* its width.
\* ------------------------------------------------------------------------
C20_CloseSameWidth ==
  scan.kind \in {"remove", "bold"} =>
    \A m \in 1..Len(scan.log) :
      scan.log[m].count > 0 =>
        (scan.log[m].closing
           <=> /\ Len(scan.log[m].open) > 0
               /\ Last(scan.log[m].open) = scan.log[m].count)

\* ------------------------------------------------------------------------
\* C21  Marker-stack invariant.  At every step of the internal-space removal
\* scan no two frames of markerStack have the same width, so the stack
\* holds at most three frames.
\* ------------------------------------------------------------------------
C21_OneFramePerWidth ==
  scan.kind = "remove" =>
    /\ \A a, b \in 1..Len(scan.st.markerStack) :
         scan.st.markerStack[a].type = scan.st.markerStack[b].type => a = b
    /\ Len(scan.st.markerStack) <= 3

\* ------------------------------------------------------------------------
\* C22  Trim bound.  Whenever an iteration of the internal-space removal
\* scan handles a closing marker: the buffer after it is a prefix of the
\* buffer before it followed by the marker, what was dropped from the end
\* is whitespace only, and that prefix is no shorter than the startPos of
\* the frame it pops, so everything emitted up to and including the opening
\* marker is still there.
\* ------------------------------------------------------------------------
IsClosingIteration ==
  /\ pc = "scan"
  /\ scan.kind = "remove"
  /\ Len(scan'.log) = Len(scan.log) + 1
  /\ scan'.log[Len(scan'.log)].closing

C22_TrimBound ==
  [][IsClosingIteration =>
       LET before == scan.st.result
           after == scan'.st.result
           count == scan'.log[Len(scan'.log)].count
           kept == Len(after) - count
           frame == scan.st.markerStack[Len(scan.st.markerStack)]
       IN /\ kept >= frame.startPos
          /\ kept <= Len(before)
          /\ after = Sub(before, 0, kept) \o Stars(count)
          /\ \A k \in kept..(Len(before) - 1) :
               At(before, k) \in WhitespaceChars
          /\ Sub(after, 0, frame.startPos) = Sub(before, 0, frame.startPos)
  ]_vars

\* a closing ** after a placeholder, a span and a blank: the blank went, the
\* placeholder and the opening marker stayed
C22_Witness ==
  /\ pc = "scanned"
  /\ scan.kind = "remove"
  /\ \E m \in 1..Len(scan.log) : scan.log[m].closing
  /\ Len(ret) < Len(text)
  /\ At(text, 0) = NUL
  /\ At(ret, 0) = NUL

\* ------------------------------------------------------------------------
\* C23  Unique placeholders.  For every processed line, the placeholders
\* of the sections protectLine returned are pairwise distinct, each occurs
\* exactly once in the protected line, and none holds a star, a backtick or
\* a dollar.
\* ------------------------------------------------------------------------

\* the indices of s at which pat occurs
Occurrences(s, pat) ==
  {p \in 0..(Len(s) - Len(pat)) : Sub(s, p, p + Len(pat)) = pat}

C23_UniquePlaceholders ==
  \A k \in 1..Len(steps) :
    steps[k].kind = "processed" =>
      LET sections == steps[k].sections
      IN /\ \A a, b \in 1..Len(sections) :
              sections[a].placeholder = sections[b].placeholder => a = b
         /\ \A a \in 1..Len(sections) :
              /\ Cardinality(Occurrences(steps[k].protectedLine,
                                         sections[a].placeholder)) = 1
              /\ \A c \in 1..Len(sections[a].placeholder) :
                   sections[a].placeholder[c] \notin {STAR, BT, DOLLAR}

\* ------------------------------------------------------------------------
\* Lines with stars inside protected regions
\* ------------------------------------------------------------------------
MaxProtectedTokens == 4

ProtectedTokens ==
  {<<BT, STAR, BT>>, <<DOLLAR, STAR, STAR, DOLLAR>>, <<STAR, STAR>>,
   <<STAR>>, <<ZH>>, <<"a">>, <<SP>>}

\* the lines of those tokens, as they are and as list items, and texts of
\* several lines with a fence or a block math delimiter
SpecProtected ==
  InitWith(LET ls == TokenLines(ProtectedTokens, MaxProtectedTokens)
           IN ls \cup {<<STAR, SP>> \o l : l \in ls} \cup CallTexts,
           CodeSettings)
    /\ [][Next]_vars

\* ------------------------------------------------------------------------
\* C24  Protected content is invisible to the marker machine.  Take any
\* processed line and replace every star that lies in a protected region
\* (the list marker, an inline code span when inline code is protected, an
\* inline math span) by a letter: processLine gives for the two lines
\* results of the same length that differ only where the one has the star
\* and the other the letter.  So every marker outside the regions is
\* classified and spaced as if the regions held no star.
\* ------------------------------------------------------------------------

\* the indices of s inside matches of the pattern of the given kind, taken
\* left to right from index from on
RECURSIVE SpanIndices(_, _, _)
SpanIndices(kind, s, from) ==
  LET m == ExecFrom(kind, s, from)
  IN IF m.index < 0 THEN {}
     ELSE (m.index)..(m.end - 1) \cup SpanIndices(kind, s, m.end)

\* s with the characters at the indices in mask replaced by c
Masked(s, mask, c) ==
  [k \in 1..Len(s) |-> IF (k - 1) \in mask THEN c ELSE s[k]]

\* the indices of line in a protected region: the list marker, the inline
\* code spans, and the inline math spans of the line outside them
RegionIndices(line, protectCode) ==
  LET list == IF ListMatch(line) > 0 THEN {ListMatch(line) - 1} ELSE {}
      code == IF protectCode
              THEN SpanIndices(CODE, Masked(line, list, DOT), 0) ELSE {}
      math == SpanIndices(LATEX, Masked(line, list \cup code, DOT), 0)
  IN list \cup code \cup math

StarsIn(line, mask) == {k \in mask : At(line, k) = STAR}

\* out and other are equal but for the letter X of other where out has a
\* star, at count indices
SameButStars(out, other, count) ==
  /\ Len(out) = Len(other)
  /\ \A k \in 1..Len(out) :
       out[k] = other[k] \/ (out[k] = STAR /\ other[k] = "X")
  /\ Cardinality({k \in 1..Len(out) : out[k] # other[k]}) = count

C24_ProtectedInvisible ==
  \A k \in 1..Len(steps) :
    steps[k].kind = "processed" =>
      LET stars == StarsIn(steps[k].line,
                           RegionIndices(steps[k].line,
                                         settings.skipInlineCode))
      IN SameButStars(steps[k].restored,
                      processLine(Masked(steps[k].line, stars, "X"),
                                  settings).restored,
                      Cardinality(stars))

\* the line **`*`**zh: the star of the code span does not close the bold
\* span, whose closing marker gets its space
C24_Witness ==
  /\ pc = "returned"
  /\ text = <<STAR, STAR, BT, STAR, BT, STAR, STAR, ZH>>
  /\ settings.spaceBetweenChineseAndBold
  /\ settings.skipInlineCode
  /\ ret = <<STAR, STAR, BT, STAR, BT, STAR, STAR, SP, ZH>>

\* ------------------------------------------------------------------------
\* C25  Bold spacing ignores width-1 markers.  An iteration of the bold
\* scan that stands on a single star (no star before it, none after it)
\* appends that star to the buffer, moves on by one and leaves isBold as it
\* is; and the result of the scan differs from the result for the line
\* with its single stars replaced by a letter only in having the stars
\* where the other has the letter: the spacing is that of the line
\* without them.
\* ------------------------------------------------------------------------
SingleStars(line) ==
  {k \in 0..(Len(line) - 1) :
     At(line, k) = STAR /\ At(line, k - 1) # STAR /\ At(line, k + 1) # STAR}

IsBoldIteration ==
  pc = "scan" /\ scan.kind = "bold" /\ Len(scan'.log) = Len(scan.log) + 1

C25_BoldIgnoresSingleStar ==
  /\ [][(IsBoldIteration /\ scan.st.i \in SingleStars(text)) =>
          /\ scan'.st.result = Append(scan.st.result, STAR)
          /\ scan'.st.i = scan.st.i + 1
          /\ scan'.st.isBold = scan.st.isBold]_vars
  /\ []((pc = "scanned" /\ scan.kind = "bold") =>
          SameButStars(ret,
                       fixBoldSpacing(Masked(text, SingleStars(text), "X"),
                                      settings),
                       Cardinality(SingleStars(text))))

\* the bold scan of zh zh **2*3=6** zh zh
C25_Witness ==
  /\ pc = "scanned"
  /\ scan.kind = "bold"
  /\ text = <<ZH, ZH, STAR, STAR, "2", STAR, "3", "=", "6", STAR, STAR, ZH,
              ZH>>
  /\ settings.spaceBetweenChineseAndBold
  /\ ret = <<ZH, ZH, SP, STAR, STAR, "2", STAR, "3", "=", "6", STAR, STAR,
             SP, ZH, ZH>>

\* ------------------------------------------------------------------------
\* C26  Italic spacing treats multi-star runs as inert.  An iteration of
\* the italic scan that recognises a marker of width 2 or 3 appends that
\* marker to the buffer as it is, moves on by its width and leaves isItalic
\* as it is; and the result of the scan differs from the result for the
\* line with the stars of its runs of two or more stars replaced by a
\* letter only in having the stars where the other has the letter, so no
\* space of this stage is due to such a run.
\* ------------------------------------------------------------------------
RunStars(line) ==
  {k \in 0..(Len(line) - 1) : At(line, k) = STAR} \ SingleStars(line)

IsItalicIteration ==
  pc = "scan" /\ scan.kind = "italic" /\ Len(scan'.log) = Len(scan.log) + 1

C26_ItalicPassesBold ==
  /\ [][(IsItalicIteration /\ scan'.log[Len(scan'.log)].count \in {2, 3}) =>
          /\ scan'.st.result
               = scan.st.result \o Stars(scan'.log[Len(scan'.log)].count)
          /\ scan'.st.i = scan.st.i + scan'.log[Len(scan'.log)].count
          /\ scan'.st.isItalic = scan.st.isItalic]_vars
  /\ []((pc = "scanned" /\ scan.kind = "italic") =>
          SameButStars(ret,
                       fixItalicSpacing(Masked(text, RunStars(text), "X"),
                                        settings),
                       Cardinality(RunStars(text))))

\* the italic scan of **zh*a*: the ** is copied, the opening * gets its space
C26_Witness ==
  /\ pc = "scanned"
  /\ scan.kind = "italic"
  /\ text = <<STAR, STAR, ZH, STAR, "a", STAR>>
  /\ settings.spaceBetweenChineseAndItalic
  /\ ret = <<STAR, STAR, ZH, SP, STAR, "a", STAR>>

\* ------------------------------------------------------------------------
\* Documents whose first line may leave a marker open
\* ------------------------------------------------------------------------
\* a line with one closed bold span before a CJK character
FollowLine == <<STAR, STAR, "a", STAR, STAR, ZH>>

\* a line alone, followed by itself, or followed by FollowLine; and the
\* documents with fences and block math delimiters
SpecLines ==
  InitWith(UNION {{l, Join(<<l, l>>), Join(<<l, FollowLine>>)} :
                    l \in TokenLines(EmphasisTokens, MaxTokens)}
             \cup CallTexts,
           CallSettings)
    /\ [][Next]_vars

\* the indices where a maximal run of asterisks starts
RunStarts(line) ==
  {p \in 0..(Len(line) - 1) : At(line, p) = STAR /\ At(line, p - 1) # STAR}

\* the line has one run of asterisks, of width 2 or 3
OneOpenMarker(line) ==
  /\ Cardinality(RunStarts(line)) = 1
  /\ RunLength(line, CHOOSE p \in RunStarts(line) : TRUE) \in {2, 3}

\* what the stages leave of a line with one marker, which is taken as
\* opening: the blanks after it are skipped when removal is on, a space is
\* put before it when the bold stage runs and the character before asks
ExpectedOpenOnly(line, config) ==
  LET p == CHOOSE q \in RunStarts(line) : TRUE
      w == RunLength(line, p)
      before == Sub(line, 0, p)
      after == Sub(line, p + w, Len(line))
      kept == IF config.removeInternalBoldSpaces
              THEN Sub(after, SkipBlanks(after, 0), Len(after)) ELSE after
      spaced == /\ (config.spaceBetweenChineseAndBold
                      \/ config.spaceBetweenEnglishAndBold)
                /\ shouldAddSpaceBefore(Last(before), config)
  IN before \o (IF spaced THEN <<SP>> ELSE <<>>) \o Stars(w) \o kept

\* ------------------------------------------------------------------------
\* C27  Unterminated markers: a line that ends with its marker open is
\* processed, the opening decisions stand (the blanks skipped after the
\* marker stay removed, the space put before it stays), and the next line
\* is processed as if it came first: equal lines of one document get equal
\* results, and the closed span of the following line is spaced as usual.
\* ------------------------------------------------------------------------
C27_UnterminatedMarkers ==
  \A k \in 1..Len(steps) :
    steps[k].kind = "processed" =>
      /\ OneOpenMarker(lines[k]) =>
           resultLines[k] = ExpectedOpenOnly(lines[k], settings)
      /\ \A j \in 1..Len(steps) :
           (steps[j].kind = "processed" /\ lines[j] = lines[k]) =>
             resultLines[j] = resultLines[k]
      /\ (k > 1 /\ lines[k] = FollowLine) =>
           resultLines[k] =
             IF settings.spaceBetweenChineseAndBold
             THEN <<STAR, STAR, "a", STAR, STAR, SP, ZH>> ELSE FollowLine

\* a line with an open bold marker after a CJK character lost the blank
\* after the marker and got a space before it, and the line after it got
\* the space of its closed span
C27_Witness ==
  /\ pc = "returned"
  /\ lines = <<<<ZH, STAR, STAR, SP, "a">>, FollowLine>>
  /\ resultLines = <<<<ZH, SP, STAR, STAR, "a">>,
                     <<STAR, STAR, "a", STAR, STAR, SP, ZH>>>>

\* ------------------------------------------------------------------------
\* Every loop of the line processing, one iteration at a time, and the
\* loop of processText over the lines of a document
\* ------------------------------------------------------------------------
MaxTotalTokens == 4

\* protectLine reaches its inline code step (line 120): the exec loop
\* starts on the line as the list step left it, lastIndex 0
ExecCall ==
  /\ pc = "idle"
  /\ \A k \in 1..Len(text) : text[k] # NL
  /\ settings.skipInlineCode
  /\ scan' = [kind |-> "exec",
              st |-> [i |-> 0,
                      result |-> ProtectList(text).protectedLine,
                      sections |-> ProtectList(text).sections],
              open |-> <<>>, log |-> <<>>]
  /\ pc' = "scan"
  /\ UNCHANGED <<text, settings, lines, n, inCodeBlock, inLatexBlock,
                 resultLines, steps, ret, history, host>>

\* one iteration of the while loop of lines 124-135: exec found a match
ExecIteration ==
  /\ pc = "scan"
  /\ scan.kind = "exec"
  /\ LET m == ExecFrom(CODE, scan.st.result, scan.st.i)
         match0 == Sub(scan.st.result, m.index, m.end)
         placeholder == Placeholder(CODE, ProtectList(text).nextIndex)
     IN /\ m.index >= 0
        /\ scan' = [scan EXCEPT
                      !.st = [i |-> m.end,
                              result |-> StringReplace(scan.st.result, match0,
                                                       placeholder),
                              sections |-> Append(scan.st.sections,
                                                  [placeholder |-> placeholder,
                                                   original |-> match0])],
                      !.log = Append(@, [i |-> scan.st.i, count |-> 0,
                                         closing |-> FALSE,
                                         open |-> scan.open])]
  /\ UNCHANGED <<text, settings, pc, lines, n, inCodeBlock, inLatexBlock,
                 resultLines, steps, ret, history, host>>

\* exec returned null: the loop ends (line 124)
ExecReturn ==
  /\ pc = "scan"
  /\ scan.kind = "exec"
  /\ ExecFrom(CODE, scan.st.result, scan.st.i).index < 0
  /\ pc' = "scanned"
  /\ ret' = scan.st.result
  /\ UNCHANGED <<text, settings, lines, n, inCodeBlock, inLatexBlock,
                 resultLines, steps, history, host, scan>>

\* a scan function is called on a line
LineScanCall ==
  /\ \A k \in 1..Len(text) : text[k] # NL
  /\ ScanCall

NextTotal ==
  LineScanCall \/ RemoveIteration \/ BoldIteration \/ ItalicIteration
    \/ ScanReturn \/ ExecCall \/ ExecIteration \/ ExecReturn \/ Next

\* the condition of line 62 being reached
ProcessLineEnabled ==
  /\ InLoop
  /\ ~FenceCondition
  /\ ~IsLatexDelimiter(Trim(loopLine))
  /\ ~(inCodeBlock \/ inLatexBlock)

\* lines of stars, blanks, a CJK character, backticks and inline code
\* spans, and documents with fences: a call that has started goes on, loop
\* iteration after loop iteration, and a line that processLine is called
\* on gets processed
SpecTotal ==
  InitWith(TokenLines({<<STAR>>, <<STAR, STAR>>, <<SP>>, <<ZH>>, <<BT>>,
                       <<BT, "a", BT>>}, MaxTotalTokens) \cup CallTexts,
           CodeSettings)
    /\ [][NextTotal]_vars
    /\ WF_vars(LineScanCall \/ RemoveIteration \/ BoldIteration
                 \/ ItalicIteration \/ ScanReturn \/ ExecCall
                 \/ ExecIteration \/ ExecReturn \/ Call \/ FenceLine
                 \/ LatexLine \/ BlockLine \/ Return)
    /\ ([]<>(~ProcessLineEnabled) \/ []<><<ProcessLine>>_vars)

Backticks(s) == Cardinality({k \in 1..Len(s) : s[k] = BT})

InScan == pc = "scan" /\ scan.kind \in {"remove", "bold", "italic"}

\* ------------------------------------------------------------------------
\* C28  Totality and termination: every iteration of the three scans moves
\* the cursor forward and the cursor never exceeds the length of the line;
\* every iteration of the inline code exec loop moves lastIndex forward and
\* takes two backticks out of the line; every call of a scan, of the exec
\* loop and of processText ends, and what the loops leave is what the
\* functions return.
\* ------------------------------------------------------------------------
C28_Total ==
  /\ [][(InScan /\ scan' # scan) =>
          (scan'.st.i > scan.st.i /\ scan'.st.i <= Len(text))]_vars
  /\ [][(pc = "scan" /\ scan.kind = "exec" /\ scan' # scan) =>
          /\ scan'.st.i > scan.st.i
          /\ Backticks(scan'.st.result) = Backticks(scan.st.result) - 2]_vars
  /\ [](InScan => scan.st.i <= Len(text))
  /\ [](pc = "scanned" =>
          ret = CASE scan.kind = "remove" -> removeInternalSpaces(text)
                  [] scan.kind = "bold" -> fixBoldSpacing(text, settings)
                  [] scan.kind = "italic" -> fixItalicSpacing(text, settings)
                  [] OTHER ->
                       CodeExecLoop(ProtectList(text).protectedLine, 0,
                                    ProtectList(text).sections,
                                    ProtectList(text).nextIndex).protectedLine)
  /\ <>(pc \in {"scanned", "returned"})

\* the exec loop ended after two iterations on a line with two inline code
\* spans
C28_Witness ==
  /\ pc = "scanned"
  /\ scan.kind = "exec"
  /\ text = <<BT, "a", BT, BT, "a", BT>>
  /\ Len(scan.log) = 2

\* what restore(italic(bold(trim(protect(line))))) is for the options of
\* config, a stage that is off being the identity
StagesInOrder(line, config) ==
  LET p == protectLine(line, config)
      t == IF config.removeInternalBoldSpaces
           THEN removeInternalSpaces(p.protectedLine) ELSE p.protectedLine
      b == IF config.spaceBetweenChineseAndBold
              \/ config.spaceBetweenEnglishAndBold
           THEN fixBoldSpacing(t, config) ELSE t
      i == IF config.spaceBetweenChineseAndItalic
           THEN fixItalicSpacing(b, config) ELSE b
  IN restoreProtectedSections(i, p.sections)

AllOptionsOn(config) ==
  /\ config.removeInternalBoldSpaces
  /\ config.spaceBetweenChineseAndBold
  /\ config.spaceBetweenEnglishAndBold
  /\ config.spaceBetweenChineseAndItalic

\* ------------------------------------------------------------------------
\* C29  Stage order: the result of an eligible line is
\* restore(italic(bold(trim(protect(line))))), each stage that is off
\* skipped; with all options on, a bold span with blanks inside and CJK
\* text on both sides comes out trimmed by the removal stage and then
\* spaced by the bold stage.
\* ------------------------------------------------------------------------
C29_StageOrder ==
  \A k \in 1..Len(steps) :
    steps[k].kind = "processed" =>
      /\ resultLines[k] = StagesInOrder(lines[k], settings)
      /\ (AllOptionsOn(settings)
            /\ lines[k] = <<ZH, STAR, STAR, SP, SP, "a", SP, SP, STAR, STAR, ZH>>)
           => /\ steps[k].removed = <<ZH, STAR, STAR, "a", STAR, STAR, ZH>>
              /\ steps[k].bold = <<ZH, SP, STAR, STAR, "a", STAR, STAR, SP, ZH>>
              /\ resultLines[k] = steps[k].bold

\* the example line has been processed with all options on
C29_Witness ==
  /\ pc = "returned"
  /\ AllOptionsOn(settings)
  /\ text = <<ZH, STAR, STAR, SP, SP, "a", SP, SP, STAR, STAR, ZH>>
  /\ ret = <<ZH, SP, STAR, STAR, "a", STAR, STAR, SP, ZH>>

\* the text of a later section of the line holds the placeholder of an
\* earlier one
Encloses(sections) ==
  \E a, b \in 1..Len(sections) :
    a < b /\ Occurrences(sections[b].original, sections[a].placeholder) # {}

\* ------------------------------------------------------------------------
\* C30  Reverse-order restoration.  For every processed line where the
\* text of a later section holds the placeholder of an earlier one (inline
\* math around inline code), restoring the sections, last found first, in
\* the protected line gives back the line.
\* ------------------------------------------------------------------------
C30_ReverseRestore ==
  \A k \in 1..Len(steps) :
    (steps[k].kind = "processed" /\ Encloses(steps[k].sections)) =>
      restoreProtectedSections(steps[k].protectedLine, steps[k].sections)
        = lines[k]

\* ------------------------------------------------------------------------
\* C31  Malformed spans are not protected.  A processed line with one
\* backtick at most and one dollar at most, and at least one of them, has
\* no protected section holding it, and comes out as the line with "=" for
\* the backtick and "," for the dollar does, those characters put back: the
\* markers around an unterminated delimiter are handled as in prose.
\* ------------------------------------------------------------------------
CountOf(s, c) == Cardinality({k \in 1..Len(s) : s[k] = c})

\* s with every c replaced by d
Swapped(s, c, d) == [k \in 1..Len(s) |-> IF s[k] = c THEN d ELSE s[k]]

Unterminated(line) ==
  /\ CountOf(line, BT) <= 1
  /\ CountOf(line, DOLLAR) <= 1
  /\ CountOf(line, BT) + CountOf(line, DOLLAR) >= 1

C31_MalformedNotProtected ==
  \A k \in 1..Len(steps) :
    (steps[k].kind = "processed" /\ Unterminated(lines[k])) =>
      LET prose == Swapped(Swapped(lines[k], BT, "="), DOLLAR, ",")
          out == processLine(prose, settings).restored
      IN /\ \A a \in 1..Len(steps[k].sections) :
              /\ CountOf(steps[k].sections[a].original, BT) = 0
              /\ CountOf(steps[k].sections[a].original, DOLLAR) = 0
         /\ resultLines[k] = Swapped(Swapped(out, "=", BT), ",", DOLLAR)

\* a bold marker after an unterminated backtick and a CJK character got its
\* space
C31_Witness ==
  /\ pc = "returned"
  /\ settings.skipInlineCode
  /\ text = <<BT, ZH, STAR, STAR>>
  /\ ret = <<BT, ZH, SP, STAR, STAR>>

\* ------------------------------------------------------------------------
\* Every settings record
\* ------------------------------------------------------------------------
MaxOptionTokens == 3

\* lines of stars, blanks, a CJK character, a letter and backticks, a bold
\* span with blanks inside in a backtick span, and documents with fences
\* and block math delimiters, under each of the 64 settings records
SpecOptions ==
  InitWith(TokenLines({<<STAR>>, <<STAR, STAR>>, <<SP>>, <<ZH>>, <<"a">>,
                       <<BT>>}, MaxOptionTokens)
             \cup {<<BT, ZH, STAR, STAR, SP, "a", STAR, STAR, ZH, BT>>}
             \cup Texts({<<BT, BT, BT>>, <<DOLLAR, DOLLAR>>,
                         <<ZH, STAR, STAR, SP, "a", STAR, STAR, ZH>>},
                        MaxOptionTokens),
           SettingsType)
    /\ [][Next]_vars

\* the length of the run of stars of s that ends at p
RECURSIVE RunBack(_, _)
RunBack(s, p) == IF At(s, p) = STAR THEN 1 + RunBack(s, p - 1) ELSE 0

\* the widths of the runs of stars next to index j of s
WidthsNextTo(s, j) == {RunLength(s, j + 1), RunBack(s, j - 1)} \ {0}

\* the spaces the bold and italic stages put into the line of step r
StageSpaces(r) == Inserted(r.removed, r.italic)

\* ------------------------------------------------------------------------
\* C32  Option gating.  For every processed line: with
\* removeInternalBoldSpaces off the result is the line with spaces inserted
\* (nothing is removed); with both bold options off no inserted space is
\* next to a run of two or three stars; with the italic option off no
\* inserted space is next to a single star; with skipInlineCode off no code
\* section is made and a line without a dollar comes out as the line with
\* "=" for each backtick does.  With skipCodeBlocks off inCodeBlock stays
\* false, no line is passed through as a fence, and a line is processed
\* unless block math says otherwise.
\* ------------------------------------------------------------------------
C32_OptionGating ==
  /\ ~settings.skipCodeBlocks => ~inCodeBlock
  /\ \A k \in 1..Len(steps) :
       /\ ~settings.skipCodeBlocks =>
            /\ steps[k].kind # "fence"
            /\ steps[k].kind = "processed" <=>
                 (~StartsMath(lines[k]) /\ ~MathOpenAfter(lines, k - 1))
       /\ steps[k].kind = "processed" =>
            /\ ~settings.removeInternalBoldSpaces =>
                 -1 \notin Inserted(lines[k], resultLines[k])
            /\ -1 \notin StageSpaces(steps[k])
            /\ (~settings.spaceBetweenChineseAndBold
                  /\ ~settings.spaceBetweenEnglishAndBold) =>
                 \A j \in StageSpaces(steps[k]) :
                   WidthsNextTo(steps[k].italic, j) \cap {2, 3} = {}
            /\ ~settings.spaceBetweenChineseAndItalic =>
                 \A j \in StageSpaces(steps[k]) :
                   1 \notin WidthsNextTo(steps[k].italic, j)
            /\ ~settings.skipInlineCode =>
                 /\ \A a \in 1..Len(steps[k].sections) :
                      Sub(steps[k].sections[a].placeholder, 1, 5) # CODE
                 /\ CountOf(lines[k], DOLLAR) = 0 =>
                      resultLines[k] =
                        Swapped(processLine(Swapped(lines[k], BT, "="),
                                            settings).restored, "=", BT)

\* with code blocks not skipped, the removal on and the bold options off,
\* the line between two fence lines lost its blank and got no space
C32_Witness ==
  /\ pc = "returned"
  /\ ~settings.skipCodeBlocks
  /\ ~settings.skipInlineCode
  /\ settings.removeInternalBoldSpaces
  /\ ~settings.spaceBetweenChineseAndBold
  /\ ~settings.spaceBetweenEnglishAndBold
  /\ lines = <<<<BT, BT, BT>>, <<ZH, STAR, STAR, SP, "a", STAR, STAR, ZH>>,
               <<BT, BT, BT>>>>
  /\ resultLines[2] = <<ZH, STAR, STAR, "a", STAR, STAR, ZH>>

\* ------------------------------------------------------------------------
\* The plugin's own formatter (main.ts 99-446): three passes over the
\* document, each with its own fence tracking and inline code protection
\* ------------------------------------------------------------------------
BOLD == <<"B", "O", "L", "D">>

\* the width of the marker the if-chain finds at i (lines 171, 190, 210 and
\* 292, 310): three stars whatever follows, two stars and no third, and,
\* where single is set, a star with no star on either side
PluginTokenAt(p, i, single) ==
  IF At(p, i) = STAR /\ At(p, i + 1) = STAR /\ At(p, i + 2) = STAR THEN 3
  ELSE IF At(p, i) = STAR /\ At(p, i + 1) = STAR THEN 2
  ELSE IF single /\ At(p, i) = STAR /\ At(p, i - 1) # STAR
          /\ At(p, i + 1) # STAR THEN 1
  ELSE 0

\* the end (exclusive) of a match of /\*\*\*[^*]+\*\*\*|\*\*[^*]+\*\*/ at p,
\* or -1
BoldMatchEndOfWidth(s, p, w) ==
  IF p + w < Len(s) /\ Sub(s, p, p + w) = Stars(w) /\ At(s, p + w) # STAR
  THEN LET q == IndexOf(s, <<STAR>>, p + w + 1)
       IN IF q >= 0 /\ q + w <= Len(s) /\ Sub(s, q, q + w) = Stars(w)
          THEN q + w ELSE -1
  ELSE -1

BoldMatchEnd(s, p) ==
  IF BoldMatchEndOfWidth(s, p, 3) >= 0 THEN BoldMatchEndOfWidth(s, p, 3)
  ELSE BoldMatchEndOfWidth(s, p, 2)

\* regex.exec(s) with lastIndex = from, for the pattern of the kind
RECURSIVE PluginExecFrom(_, _, _)
PluginExecFrom(kind, s, from) ==
  IF from >= Len(s) THEN [index |-> -1, end |-> -1]
  ELSE IF kind = BOLD /\ BoldMatchEnd(s, from) >= 0
    THEN [index |-> from, end |-> BoldMatchEnd(s, from)]
  ELSE IF kind = CODE /\ CodeMatchEnd(s, from) >= 0
    THEN [index |-> from, end |-> CodeMatchEnd(s, from)]
  ELSE PluginExecFrom(kind, s, from + 1)

\* the string exec searches: the line for inline code (lines 155, 276, 390),
\* the string being rewritten for bold spans (line 402)
PluginSearched(kind, line, r) ==
  IF kind = BOLD THEN r.protectedLine ELSE line

\* the protection loops (lines 155-160, 276-281, 390-395 and 402-407), from
\* the test of the match m on; r holds protectedLine and protectedSections
RECURSIVE PluginProtect(_, _, _, _, _)
PluginProtect(kind, line, m, r, index) ==
  IF m.index < 0 THEN r
  ELSE PluginProtect(
         kind, line,
         PluginExecFrom(
           kind,
           PluginSearched(
             kind, line,
             [protectedLine |->
                StringReplace(r.protectedLine,
                              Sub(PluginSearched(kind, line, r), m.index, m.end),
                              Placeholder(kind, index))]),
           m.end),
         [protectedLine |->
            StringReplace(r.protectedLine,
                          Sub(PluginSearched(kind, line, r), m.index, m.end),
                          Placeholder(kind, index)),
          sections |->
            Append(r.sections,
                   [placeholder |-> Placeholder(kind, index),
                    original |->
                      Sub(PluginSearched(kind, line, r), m.index, m.end)])],
         index + 1)

\* lines 151-161, 272-282, 386-396
PluginProtectCode(line, config) ==
  IF config.skipInlineCode
  THEN PluginProtect(CODE, line, PluginExecFrom(CODE, line, 0),
                     [protectedLine |-> line, sections |-> <<>>], 0)
  ELSE [protectedLine |-> line, sections |-> <<>>]

\* lines 399-407
PluginProtectBold(r) ==
  PluginProtect(BOLD, <<>>, PluginExecFrom(BOLD, r.protectedLine, 0), r, 0)

\* the restore loops (lines 234-236, 334-336, 441-443): first section first
RECURSIVE PluginRestore(_, _, _)
PluginRestore(result, sections, k) ==
  IF k > Len(sections) THEN result
  ELSE PluginRestore(StringReplace(result, sections[k].placeholder,
                                   sections[k].original),
                     sections, k + 1)

\* lines 170-231: as handleMarker of processor.ts, but the skip after an
\* opening marker takes every whitespace character
PluginRemoveStep(p, st, count) ==
  IF count = 0
  THEN [i |-> st.i + 1, result |-> Append(st.result, At(p, st.i)),
        markerStack |-> st.markerStack]
  ELSE IF IsClosing(st.markerStack, Stars(count))
    THEN handleMarker(p, st, count)
  ELSE [i |-> LeadingWhitespace(p, st.i + count),
        result |-> st.result \o Stars(count),
        markerStack |-> Append(st.markerStack,
                               [type |-> Stars(count),
                                startPos |-> Len(st.result) + count])]

\* lines 291-331; the two branches and the predicates of lines 341-353 read
\* as handleBoldToken and the predicates of processor.ts
PluginBoldStep(p, st, count, config) ==
  IF count > 0 THEN handleBoldToken(p, st, count, config)
  ELSE [i |-> st.i + 1, result |-> Append(st.result, At(p, st.i)),
        isBold |-> st.isBold]

\* lines 416-438
PluginItalicStep(p, st, count) ==
  IF count = 1
  THEN IF ~st.isItalic
       THEN [i |-> st.i + 1,
             result |-> (IF isChinese(Last(st.result))
                         THEN Append(st.result, SP) ELSE st.result)
                        \o <<STAR>>,
             isItalic |-> TRUE]
       ELSE [i |-> st.i + 1,
             result |-> IF isChinese(At(p, st.i + 1))
                        THEN st.result \o <<STAR, SP>>
                        ELSE Append(st.result, STAR),
             isItalic |-> FALSE]
  ELSE [i |-> st.i + 1, result |-> Append(st.result, At(p, st.i)),
        isItalic |-> st.isItalic]

\* one iteration of the state machine of a pass
PluginStep(stage, p, st, config) ==
  IF stage = "remove" THEN PluginRemoveStep(p, st, PluginTokenAt(p, st.i, TRUE))
  ELSE IF stage = "bold"
    THEN PluginBoldStep(p, st, PluginTokenAt(p, st.i, FALSE), config)
  ELSE PluginItalicStep(p, st, PluginTokenAt(p, st.i, TRUE))

\* the loops of lines 169, 290 and 415
RECURSIVE PluginScan(_, _, _, _)
PluginScan(stage, p, st, config) ==
  IF st.i < Len(p)
  THEN PluginScan(stage, p, PluginStep(stage, p, st, config), config)
  ELSE st

\* the state machine of a pass over the protected line, then the restore
PluginScanAndRestore(stage, r, config) ==
  PluginRestore(
    PluginScan(stage, r.protectedLine,
               [i |-> 0, result |-> <<>>, markerStack |-> <<>>,
                isBold |-> FALSE, isItalic |-> FALSE],
               config).result,
    r.sections, 1)

\* lines 146-239
removeInternalSpacesInLine(line, config) ==
  PluginScanAndRestore("remove", PluginProtectCode(line, config), config)

\* lines 267-339
fixBoldSpacingInLine(line, config) ==
  PluginScanAndRestore("bold", PluginProtectCode(line, config), config)

\* lines 381-446
fixItalicSpacingInLine(line, config) ==
  PluginScanAndRestore("italic",
                       PluginProtectBold(PluginProtectCode(line, config)),
                       config)

\* line k of ls is pushed as it is by the loops of lines 128-141, 249-262
\* and 363-376: it is a fence line or inCodeBlock is set when it is reached
PluginPassed(ls, k, config) ==
  /\ config.skipCodeBlocks
  /\ \/ IsFence(Trim(ls[k]))
     \/ Cardinality({j \in 1..(k - 1) : IsFence(Trim(ls[j]))}) % 2 = 1

\* one line of a pass
PluginLine(stage, line, config) ==
  IF stage = "remove" THEN removeInternalSpacesInLine(line, config)
  ELSE IF stage = "bold" THEN fixBoldSpacingInLine(line, config)
  ELSE fixItalicSpacingInLine(line, config)

\* removeInternalSpaces, fixBoldSpacing and fixItalicSpacing of the plugin
\* (lines 123-144, 244-265, 358-379) over the lines ls
PluginLines(stage, ls, config) ==
  Join([k \in 1..Len(ls) |->
          IF PluginPassed(ls, k, config) THEN ls[k]
          ELSE PluginLine(stage, ls[k], config)])

\* a step of processText: the pass if its option is set
PluginPass(stage, enabled, doc, config) ==
  IF enabled THEN PluginLines(stage, Split(doc), config) ELSE doc

\* lines 99-118
pluginProcessText(doc, config) ==
  PluginPass("italic", config.spaceBetweenChineseAndItalic,
    PluginPass("bold", config.spaceBetweenChineseAndBold,
      PluginPass("remove", config.removeInternalBoldSpaces, doc, config),
      config),
    config)

\* the documents the editor holds when a command runs
PluginTexts ==
  {<<"W", "o", "r", "d", STAR, STAR, "B", "o", "l", "d", STAR, STAR,
     "W", "o", "r", "d">>,
   <<ZH, STAR, STAR, SP, "a", SP, STAR, STAR, ZH>>,
   <<ZH, STAR, "a", STAR, ZH, STAR, STAR, "a", STAR, STAR, "b">>,
   <<ZH, STAR, STAR, BT, STAR, BT, STAR, STAR, ZH, STAR, "a", STAR, ZH>>,
   <<BT, BT, BT, NL, ZH, STAR, STAR, "a", STAR, STAR, ZH, NL, BT, BT, BT, NL,
     "a", STAR, STAR, SP, "b", STAR, STAR, "a">>}

InitPlugin ==
  /\ text = <<>>
  /\ settings = DEFAULT_SETTINGS
  /\ pc = "host"
  /\ lines = <<>>
  /\ n = 0
  /\ inCodeBlock = FALSE
  /\ inLatexBlock = FALSE
  /\ resultLines = <<>>
  /\ steps = <<>>
  /\ ret = <<>>
  /\ history = <<>>
  /\ scan = NoScan
  /\ \E d \in PersistedData, t \in PluginTexts, c \in 0..MaxCursor :
       host = [NotLoaded EXCEPT !.data = d, !.doc = t, !.cursor = c]

\* an editorCallback of a registered command, with the text that
\* this.processText returns for the editor's content (main.ts 83)
RunCommand(id, showNotice) ==
  /\ host.phase = "loaded"
  /\ host.commands < MaxCommands
  /\ \E movedTo \in 0..MaxCursor :
       LET r == formatEditor(host, showNotice,
                             pluginProcessText(host.doc, host.settings),
                             movedTo)
       IN host' = [r.editor EXCEPT
                     !.commands = @ + 1,
                     !.last = [id |-> id, showNotice |-> showNotice,
                               doc |-> host.doc, cursor |-> host.cursor,
                               calls |-> r.calls]]
  /\ UNCHANGED ProcessorVars

\* lines 34-40
RunFixAllSpacing == RunCommand("fix-all-spacing", TRUE)

\* lines 43-49
RunFixBoldSpacing == RunCommand("fix-bold-spacing", TRUE)

\* lines 52-58
RunFixAllSpacingSilent == RunCommand("fix-all-spacing-silent", FALSE)

NextPlugin ==
  OnLoad \/ RunFixAllSpacing \/ RunFixBoldSpacing \/ RunFixAllSpacingSilent

SpecPlugin == InitPlugin /\ [][NextPlugin]_vars

\* ------------------------------------------------------------------------
\* C33  The 'fix all spacing' command runs every enabled stage.  Whenever
\* the command has run, the document it leaves is the one the three passes
\* give when the removal pass runs under removeInternalBoldSpaces, the bold
\* pass under spaceBetweenChineseAndBold or spaceBetweenEnglishAndBold, and
\* the italic pass under spaceBetweenChineseAndItalic; so with only
\* spaceBetweenEnglishAndBold set, Word**Bold**Word becomes
\* Word **Bold** Word.
\* ------------------------------------------------------------------------
EveryEnabledStage(doc, config) ==
  PluginPass("italic", config.spaceBetweenChineseAndItalic,
    PluginPass("bold", config.spaceBetweenChineseAndBold
                         \/ config.spaceBetweenEnglishAndBold,
      PluginPass("remove", config.removeInternalBoldSpaces, doc, config),
      config),
    config)

C33_EveryEnabledStage ==
  (host.commands > 0 /\ host.last.id = "fix-all-spacing")
    => host.doc = EveryEnabledStage(host.last.doc, host.settings)

\* ------------------------------------------------------------------------
\* C35  Block flags are independent.  While processText runs and when it
\* has returned, inCodeBlock and inLatexBlock are the flags obtained by
\* letting a fence line toggle inCodeBlock only outside block math and a
\* toggling $$ line toggle inLatexBlock only outside a fenced block; and a
\* line is handed to processLine exactly if it is no delimiter line and
\* both of these flags are clear when it is reached.
\* ------------------------------------------------------------------------
RECURSIVE IndependentFlags(_, _, _)
IndependentFlags(ls, k, config) ==
  IF k = 0 THEN [code |-> FALSE, math |-> FALSE]
  ELSE LET f == IndependentFlags(ls, k - 1, config)
       IN IF config.skipCodeBlocks /\ IsFence(Trim(ls[k]))
          THEN [f EXCEPT !.code = IF f.math THEN @ ELSE ~@]
          ELSE IF TogglingMathLine(ls[k])
            THEN [f EXCEPT !.math = IF f.code THEN @ ELSE ~@]
          ELSE f

C35_IndependentFlags ==
  pc \in {"loop", "returned"} =>
    /\ inCodeBlock = IndependentFlags(lines, n, settings).code
    /\ inLatexBlock = IndependentFlags(lines, n, settings).math
    /\ \A k \in 1..Len(steps) :
         steps[k].kind = "processed" <=>
           /\ ~(settings.skipCodeBlocks /\ IsFence(Trim(lines[k])))
           /\ ~StartsMath(lines[k])
           /\ ~IndependentFlags(lines, k - 1, settings).code
           /\ ~IndependentFlags(lines, k - 1, settings).math

\* ------------------------------------------------------------------------
\* C36  Only whitespace changes.  When processText has returned, the result
\* without its whitespace characters is the text without its whitespace
\* characters.  For every processed line, removeInternalSpaces gives the
\* protected line with whitespace characters deleted and nothing else
\* changed, and fixBoldSpacing and fixItalicSpacing each give their input
\* with spaces inserted, every inserted space next to a star and no two of
\* them next to each other, at most as many as there are stars.
\* ------------------------------------------------------------------------
WithoutWhitespace(s) == SelectSeq(s, LAMBDA c : c \notin WhitespaceChars)

\* out is inp with some whitespace characters deleted
RECURSIVE WhitespaceDeleted(_, _, _, _)
WhitespaceDeleted(inp, out, i, j) ==
  IF i >= Len(inp) THEN j >= Len(out)
  ELSE IF j < Len(out) /\ At(inp, i) = At(out, j)
            /\ WhitespaceDeleted(inp, out, i + 1, j + 1) THEN TRUE
  ELSE At(inp, i) \in WhitespaceChars /\ WhitespaceDeleted(inp, out, i + 1, j)

\* out is inp with single spaces inserted at markers
SingleSpacesInserted(inp, out) ==
  LET added == Inserted(inp, out)
  IN /\ -1 \notin added
     /\ \A j \in added : j + 1 \notin added
     /\ \A j \in added : At(out, j - 1) = STAR \/ At(out, j + 1) = STAR
     /\ Cardinality(added) <= CountOf(inp, STAR)

C36_OnlyWhitespaceChanges ==
  /\ pc = "returned" => WithoutWhitespace(ret) = WithoutWhitespace(text)
  /\ \A k \in 1..Len(steps) :
       steps[k].kind = "processed" =>
         /\ WhitespaceDeleted(steps[k].protectedLine, steps[k].removed, 0, 0)
         /\ SingleSpacesInserted(steps[k].removed, steps[k].bold)
         /\ SingleSpacesInserted(steps[k].bold, steps[k].italic)

\* ------------------------------------------------------------------------
\* C37  Line structure is preserved.  While processText runs, the flags are
\* those the lines read so far give, and every line read was pushed as it
\* is if it is a delimiter line or a flag was set when it was reached, and
\* as processLine returns it for that line alone otherwise.  When
\* processText has returned, the result has as many lines as the text, and
\* they are the lines pushed.
\* ------------------------------------------------------------------------
RECURSIVE BlockStateAfter(_, _, _)
BlockStateAfter(ls, k, config) ==
  IF k = 0 THEN [code |-> FALSE, math |-> FALSE]
  ELSE LET f == BlockStateAfter(ls, k - 1, config)
       IN IF config.skipCodeBlocks /\ IsFence(Trim(ls[k]))
          THEN [f EXCEPT !.code = ~@]
          ELSE IF TogglingMathLine(ls[k]) THEN [f EXCEPT !.math = ~@]
          ELSE f

\* line k of ls is pushed as it is
PushedAsIs(ls, k, config) ==
  \/ config.skipCodeBlocks /\ IsFence(Trim(ls[k]))
  \/ StartsMath(ls[k])
  \/ BlockStateAfter(ls, k - 1, config).code
  \/ BlockStateAfter(ls, k - 1, config).math

C37_LineStructure ==
  /\ pc \in {"loop", "returned"} =>
       /\ lines = Split(text)
       /\ Len(resultLines) = n
       /\ inCodeBlock = BlockStateAfter(lines, n, settings).code
       /\ inLatexBlock = BlockStateAfter(lines, n, settings).math
       /\ \A k \in 1..n :
            resultLines[k] = IF PushedAsIs(lines, k, settings) THEN lines[k]
                             ELSE processLine(lines[k], settings).restored
  /\ pc = "returned" =>
       /\ Len(Split(ret)) = Len(Split(text))
       /\ Split(ret) = resultLines

\* processText has returned for a text of two lines, the first a pair of
\* stars that opens a bold span and never closes it; the second line came
\* out as it does alone, with a space after its own closing marker
C37_Witness ==
  /\ pc = "returned"
  /\ text = <<STAR, STAR, NL>> \o FollowLine
  /\ settings.spaceBetweenChineseAndBold
  /\ ret = <<STAR, STAR, NL, STAR, STAR, "a", STAR, STAR, SP, ZH>>

\* ------------------------------------------------------------------------
\* C38  Placeholder neutrality.  Under every settings record, for every
\* processed line: fixBoldSpacing and fixItalicSpacing insert no space next
\* to a placeholder, the predicates answer no for the character a
\* placeholder begins and ends with, and, where nothing but inserted spaces
\* distinguishes the result from the line, no inserted space is next to a
\* backtick or a dollar.
\* ------------------------------------------------------------------------
MaxNeutralTokens == 4

\* lines of inline code, inline math, markers and CJK characters, alone and
\* behind a list marker, and texts with fences and block math, under every
\* settings record
SpecNeutral ==
  InitWith(LET ls == TokenLines({<<BT, "a", BT>>, <<DOLLAR, ZH, DOLLAR>>,
                                 <<STAR, STAR>>, <<STAR>>, <<ZH>>},
                                MaxNeutralTokens)
           IN ls \cup {<<STAR, SP>> \o l : l \in ls} \cup CallTexts,
           SettingsType)
    /\ [][Next]_vars

NoSpaceNextTo(chars, inp, out) ==
  \A j \in Inserted(inp, out) :
    j >= 0 => At(out, j - 1) \notin chars /\ At(out, j + 1) \notin chars

C38_PlaceholderNeutrality ==
  /\ ~shouldAddSpaceBefore(NUL, settings)
  /\ ~shouldAddSpaceAfter(NUL, settings)
  /\ \A k \in 1..Len(steps) :
       steps[k].kind = "processed" =>
         /\ NoSpaceNextTo({NUL}, steps[k].removed, steps[k].bold)
         /\ NoSpaceNextTo({NUL}, steps[k].bold, steps[k].italic)
         /\ -1 \notin Inserted(steps[k].line, steps[k].restored)
              => NoSpaceNextTo({BT, DOLLAR}, steps[k].line, steps[k].restored)

\* processText has returned for an inline code span directly followed by a
\* bold span, with both bold options set: the span was protected and the
\* line is unchanged
C38_Witness ==
  /\ pc = "returned"
  /\ text = <<BT, "a", BT, STAR, STAR, ZH, STAR, STAR>>
  /\ settings.spaceBetweenEnglishAndBold
  /\ settings.spaceBetweenChineseAndBold
  /\ settings.skipInlineCode
  /\ Len(steps[1].sections) = 1
  /\ ret = text

\* ------------------------------------------------------------------------
\* The render-only hint layer (src/unnamed/part_004, lines 70-276, with the
\* patterns and the boundary predicate of src/unnamed/part_003).  In this
\* part host is the editor view with the plugin instance:
\*   doc, selection, visibleRanges   the editor state the plugin reads; the
\*             selection is a set of ranges, visibleRanges a sequence
\*   livePreview   the value of editorLivePreviewField
\*   tree      the ranges of the syntax tree's nodes of a type that
\*             shouldSkipNode looks for
\*   plugin    "none" until the view constructs the plugin, "active", or
\*             "crashed" once the constructor or update has thrown
\*   decorations   this.decorations: the ranges added, in order, each with
\*             the match it was added for
\* ------------------------------------------------------------------------

\* part_003 lines 1-17: the three patterns, by the width of their markers
PATTERNS ==
  <<[w |-> 3, type |-> "bold-italic"], [w |-> 2, type |-> "bold"],
    [w |-> 1, type |-> "italic"]>>

\* part_003 lines 23-29, on the characters of the model
isProblematicBoundary(char) == char \in {ZH, FWCOMMA}

\* the end (exclusive) of a match of the pattern of width w at p in s, or
\* -1: w stars, one or more characters that are no star and no newline, w
\* stars; for w = 1 no star before or after either marker
HintMatchEnd(s, p, w) ==
  IF /\ p + w < Len(s)
     /\ Sub(s, p, p + w) = Stars(w)
     /\ At(s, p + w) \notin {STAR, NL}
     /\ w = 1 => At(s, p - 1) # STAR
  THEN LET stops == {q \in (p + w + 1)..(Len(s) - 1) : At(s, q) \in {STAR, NL}}
           q == IF stops = {} THEN -1
                ELSE CHOOSE x \in stops : \A y \in stops : x <= y
       IN IF /\ q >= 0
             /\ q + w <= Len(s)
             /\ Sub(s, q, q + w) = Stars(w)
             /\ w = 1 => At(s, q + 1) # STAR
          THEN q + w ELSE -1
  ELSE -1

\* regex.exec(s) with lastIndex = from
RECURSIVE HintExec(_, _, _)
HintExec(s, w, from) ==
  IF from >= Len(s) THEN [index |-> -1, end |-> -1]
  ELSE IF HintMatchEnd(s, from, w) >= 0
    THEN [index |-> from, end |-> HintMatchEnd(s, from, w)]
  ELSE HintExec(s, w, from + 1)

\* part_004 lines 123-125
isCursorInside(selection, from, to) ==
  \E range \in selection : range.from <= to /\ range.to >= from

\* part_004 lines 130-156: the tree is iterated over from..to and a node of
\* one of the listed types is met
shouldSkipNode(v, from, to) ==
  \E node \in v.tree : node.from <= to /\ node.to >= from

HintAdd(from, to, class, matchStart, matchEnd) ==
  [from |-> from, to |-> to, class |-> class,
   matchStart |-> matchStart, matchEnd |-> matchEnd]

\* part_004 lines 182-244: the body of the while loop for one match; what
\* it adds to the builder
HintMatchAdds(v, matchStart, matchEnd, pat) ==
  IF /\ \/ isProblematicBoundary(IF matchStart > 0
                                 THEN At(v.doc, matchStart - 1) ELSE Undefined)
        \/ isProblematicBoundary(IF matchEnd < Len(v.doc)
                                 THEN At(v.doc, matchEnd) ELSE Undefined)
     /\ ~shouldSkipNode(v, matchStart, matchEnd)
     /\ ~isCursorInside(v.selection, matchStart, matchEnd)
  THEN <<HintAdd(matchStart, matchStart + pat.w, "hidden",
                 matchStart, matchEnd),
         HintAdd(matchStart + pat.w, matchEnd - pat.w, pat.type,
                 matchStart, matchEnd),
         HintAdd(matchEnd - pat.w, matchEnd, "hidden", matchStart, matchEnd)>>
  ELSE <<>>

\* part_004 lines 181-245: the while loop of one pattern over the slice s
\* that begins at base, from the match m on
RECURSIVE HintLoop(_, _, _, _, _)
HintLoop(v, base, s, pat, m) ==
  IF m.index < 0 THEN <<>>
  ELSE HintMatchAdds(v, base + m.index, base + m.end, pat)
       \o HintLoop(v, base, s, pat, HintExec(s, pat.w, m.end))

\* part_004 lines 177-246: the three patterns over one visible range
HintRangeAdds(v, base, s) ==
  HintLoop(v, base, s, PATTERNS[1], HintExec(s, 3, 0))
  \o HintLoop(v, base, s, PATTERNS[2], HintExec(s, 2, 0))
  \o HintLoop(v, base, s, PATTERNS[3], HintExec(s, 1, 0))

\* part_004 lines 172-247: the visible ranges from the k-th on
RECURSIVE HintAdds(_, _)
HintAdds(v, k) ==
  IF k > Len(v.visibleRanges) THEN <<>>
  ELSE HintRangeAdds(v, v.visibleRanges[k].from,
                     Sub(v.doc, v.visibleRanges[k].from,
                         v.visibleRanges[k].to))
       \o HintAdds(v, k + 1)

\* RangeSetBuilder.add takes ranges sorted by their from position and
\* throws for a range that begins before the one added last
AddThrows(adds) ==
  \E k \in 1..(Len(adds) - 1) : adds[k + 1].from < adds[k].from

\* part_004 lines 161-250: the set built, or the throw of an add
hintBuildDecorations(v) ==
  IF ~v.livePreview THEN [threw |-> FALSE, set |-> <<>>]
  ELSE [threw |-> AddThrows(HintAdds(v, 1)), set |-> HintAdds(v, 1)]

\* the plugin after `this.decorations = buildDecorations(view)` (lines 260
\* and 269): the view deactivates a plugin whose constructor or update
\* throws
PluginAssigned(v, r) ==
  IF r.threw THEN [v EXCEPT !.plugin = "crashed"]
  ELSE [v EXCEPT !.plugin = "active", !.decorations = r.set]

\* part_004 lines 263-271: update, for an update with one of the three
\* flags set; the view calls it on active plugins only
PluginUpdate(v) ==
  IF v.plugin = "active" THEN PluginAssigned(v, hintBuildDecorations(v))
  ELSE v

\* part_004 lines 273-275: the decorations the view gets from the plugin
ShownDecorations(v) ==
  IF v.plugin = "active" THEN v.decorations ELSE <<>>

HintDocs ==
  {<<ZH, STAR, "a", STAR, ZH, STAR, STAR, "b", STAR, STAR, ZH>>,
   <<ZH, STAR, STAR, "b", STAR, STAR, ZH, STAR, "a", STAR, ZH>>,
   <<ZH, STAR, STAR, STAR, "a", STAR, STAR, STAR, FWCOMMA, NL, "a">>,
   <<"a", STAR, STAR, "b", STAR, STAR, "a", SP, STAR, "a", STAR>>}

HintRange(from, to) == [from |-> from, to |-> to]

\* a cursor at one of four places, a range, or two of these
HintSelections ==
  LET pool == {HintRange(0, 0), HintRange(3, 3), HintRange(7, 7),
               HintRange(11, 11), HintRange(2, 6)}
  IN {sel \in SUBSET pool : Cardinality(sel) \in {1, 2}}

HintViewports ==
  {<<HintRange(0, 11)>>, <<HintRange(0, 6)>>, <<HintRange(5, 11)>>,
   <<HintRange(0, 4), HintRange(6, 11)>>}

HintTrees == {{}, {HintRange(5, 10)}}

InitHint ==
  /\ text = <<>>
  /\ settings = DEFAULT_SETTINGS
  /\ pc = "host"
  /\ lines = <<>>
  /\ n = 0
  /\ inCodeBlock = FALSE
  /\ inLatexBlock = FALSE
  /\ resultLines = <<>>
  /\ steps = <<>>
  /\ ret = <<>>
  /\ history = <<>>
  /\ scan = NoScan
  /\ \E d \in HintDocs, sel \in HintSelections, vp \in HintViewports,
        tr \in HintTrees, lp \in BOOLEAN :
       host = [doc |-> d, selection |-> sel, visibleRanges |-> vp,
               tree |-> tr, livePreview |-> lp, plugin |-> "none",
               decorations |-> <<>>]

\* part_004 lines 259-261: the view constructs the plugin
HintConstruct ==
  /\ host.plugin = "none"
  /\ host' = PluginAssigned(host, hintBuildDecorations(host))
  /\ UNCHANGED ProcessorVars

\* a transaction that changes the document; it comes with the selection
\* mapped through the change, a new tree and the ranges then visible
DocChanged ==
  /\ host.plugin # "none"
  /\ \E d \in HintDocs \ {host.doc}, sel \in HintSelections,
        vp \in HintViewports, tr \in HintTrees :
       host' = PluginUpdate([host EXCEPT !.doc = d, !.selection = sel,
                                         !.visibleRanges = vp, !.tree = tr])
  /\ UNCHANGED ProcessorVars

\* the viewport changes
ViewportChanged ==
  /\ host.plugin # "none"
  /\ \E vp \in HintViewports \ {host.visibleRanges} :
       host' = PluginUpdate([host EXCEPT !.visibleRanges = vp])
  /\ UNCHANGED ProcessorVars

\* a transaction that sets the selection
SelectionSet ==
  /\ host.plugin # "none"
  /\ \E sel \in HintSelections \ {host.selection} :
       host' = PluginUpdate([host EXCEPT !.selection = sel])
  /\ UNCHANGED ProcessorVars

NextHint == HintConstruct \/ DocChanged \/ ViewportChanged \/ SelectionSet

SpecHint == InitHint /\ [][NextHint]_vars

\* ------------------------------------------------------------------------
\* C34  Render-only hint layer.  Once the plugin is constructed, after any
\* sequence of document changes, viewport changes and selection changes,
\* the decorations the view shows are those of the current document,
\* selection and visible ranges: the three ranges of every match in a
\* visible range that has a problematic boundary, is not skipped for its
\* syntax node, and neither overlaps nor touches a range of the selection;
\* and no decoration shown is of a match that overlaps or touches a range
\* of the current selection.
\* ------------------------------------------------------------------------
ExpectedHints(v) ==
  IF v.livePreview THEN {HintAdds(v, 1)[k] : k \in 1..Len(HintAdds(v, 1))}
  ELSE {}

C34_HintLayer ==
  host.plugin # "none" =>
    /\ {ShownDecorations(host)[k] : k \in 1..Len(ShownDecorations(host))}
         = ExpectedHints(host)
    /\ \A k \in 1..Len(ShownDecorations(host)) :
         ~isCursorInside(host.selection,
                         ShownDecorations(host)[k].matchStart,
                         ShownDecorations(host)[k].matchEnd)

==========================================================================
